---- MODULE Spec2Model ----
(***************************************************************************)
(* State-machine model of the racing dashboard runtime: the C++ alert      *)
(* manager, the C display manager, health monitor, signal bus and runtime  *)
(* step, the firmware channel registry with its FreeRTOS tasks, and the    *)
(* GPS lap timer.  Each component has its own next-state relation over the *)
(* shared variables, and one specification per component.                  *)
(***************************************************************************)
EXTENDS Integers, Sequences, FiniteSets, TLC

\* ------------------------------------------------------------------------
\* Bounds of the model
\* ------------------------------------------------------------------------
MaxAlerts == 2        \* alert rules registered with the C++ AlertManager
MaxQuiet == 2         \* non-asserted evaluate calls counted per latched id
MaxRoutes == 2        \* routes registered with the C display manager
MaxRules == 1         \* stale-signal rules registered with the C health monitor
LOGGER_LINES == 2     \* capacity of DataLogger.lines (its header is not in the tree)
MaxUpdates == 2       \* cap on RD_ChannelData_t.update_count
MaxTime == 6          \* last GPS timestamp fed to lap_timer_update
MaxLapCount == 2      \* laps recorded before the model stops feeding fixes
MaxFixes == 1003      \* fixes on the start/finish line fed to fill laps[]
MaxSamples == 5       \* samples accepted by advanced_logger_log_sample
MaxOpenFiles == 2     \* files the advanced logger holds open at once
RingCapacity == 2     \* RingBuffer.capacity, in samples
WriteBufferSize == 5  \* config.buffer_size_kb * 1024, in samples
MaxRaw == 6           \* raw samples fed to a DebouncedInput after its construction
MaxOffers == 34       \* alerts offered to voice_alert_queue
MaxClears == 1        \* voice_alert_clear_queue calls
MaxClock == 3         \* last reading of the steady clock, in ms
MaxDeliveries == 3    \* RD_ADC_DMA_Callback calls
MaxSpoken == 3        \* cap on VoiceAlertSystem.total_alerts_spoken

\* ------------------------------------------------------------------------
\* Program constants
\* ------------------------------------------------------------------------
MAX_NUMERIC_SIGNALS == 64
MAX_DIGITAL_SIGNALS == 32
INT_MIN_PLUS_1 == -2147483647   \* initial best_priority of display_tick
MAX_CHANNELS == 256
RD_CH_SYSTEM_UPTIME == 902
RD_CH_SYSTEM_GPS_STATUS == 907
MAX_LAPS == 1000
VOICE_MAX_QUEUE_SIZE == 32
RD_ADC_NUM_CHANNELS == 8
DOUBLE_LOWEST == -2147483647       \* stands for std::numeric_limits<double>::lowest()
NaN == -1000                    \* stands for the float NAN

isnan(x) == x = NaN

\* ------------------------------------------------------------------------
\* Small value domains shared by the components
\* ------------------------------------------------------------------------
AlertIds == {"a", "b"}
AlertChannels == {"rpm", "oil"}
AlertValues == {0, 1}
AlertThresholds == {1}

NullFn == "NULL"                        \* a NULL function pointer
Times == 0..2                           \* uint64_t now_ms values
NumericNames == {"rpm", "coolant_temp"}
NumericValues == {0, 1}
DigitalNames == {"pit_limiter", "drs"}
DefaultScreenIds == {"main", "race"}     \* ids given to display_set_default
TargetScreenIds == {"race", "warning"}  \* LogicRoute.target_screen
Priorities == {3, 5}
MaxAges == {0, 1}

VARIABLES
    numeric_signals,   \* firmware::SignalBus::numeric_signals (std::map name -> value)
    alerts_,           \* AlertManager::alerts_ (registration order)
    active_alerts_,    \* AlertManager::active_alerts_
    latched_quiet,     \* history: id -> evaluate calls since a latched rule asserted it
    alert_steps,       \* history: per rule, the iteration of the last evaluate call:
                       \*   whether the rule was asserted, the active set before and
                       \*   after the iteration, whether it wrote the notification
    alert_steps_prev,  \* history: alert_steps of the evaluate call before the last
    bus,               \* Runtime.bus (C SignalBus: numeric[], digital[])
    display,           \* Runtime.display (C DisplayManager: routes[], current)
    health_monitor,    \* Runtime.health_monitor (C HealthMonitor: rules[])
    logger,            \* Runtime.logger (C DataLogger: lines[])
    default_screen,    \* history: the id last given to display_set_default
    last_call,         \* history: the C runtime operation called last
    hm_now,            \* history: now_ms of the last health_monitor_evaluate
    hm_logged,         \* history: per rule, the timestamp it logged as stale in the
                       \*   last health_monitor_evaluate, -1 if it wrote no line
    hm_now_prev,       \* history: hm_now of the evaluation before the last
    hm_logged_prev,    \* history: hm_logged of the evaluation before the last
    s_channels,        \* rd_channel.c s_channels: defs[], data[], initialized
    reg_call,          \* history: the last registry call, its id and its return code
    registered,        \* history: ids whose Register returned RD_OK, not unregistered since
    removed,           \* history: ids whose Unregister returned RD_OK
    process_runs,      \* history: RD_Channel_Process calls in a row since any other call
    values_before,     \* history: the channel values before the last RD_Channel_Process
    alerts,            \* C AlertManager.alerts[0..count-1]
    math_engine,       \* C MathEngine.channels[0..count-1]
    step_now,          \* history: the `now` argument of the last runtime_step
    scheduler_started, \* main() has reached vTaskStartScheduler
    pc,                \* per task: its position inside a registry call, or "idle"
    call,              \* per task: the arguments and locals of the call it is in
    uptime_seconds,    \* s_system.uptime_seconds
    lt,                \* the LapTimer
    lap_clock,         \* history: the timestamp of the last GPS fix
    lap_prev,          \* history: <<position>> of the last GPS fix, <<>> before the first
    lap_order,         \* history: the sector lines the fixes of the running lap lay on,
                       \*   in order, consecutive fixes on one line counted once
    lap_orders,        \* history: lap_order of each recorded lap
    bus_call,          \* history: the arguments of the last signal_bus_set_numeric
    bus_before,        \* history: the bus before the last signal_bus_set_numeric
    external,          \* Runtime.external.source (ExternalVideoSource)
    adv_logger,        \* the AdvancedLogger
    sd_card,           \* the file the logger's handle writes to, and the files held open
    adv_hist,          \* history of the logger: the last call, samples logged and
                       \*   discarded, storage failures, what deinit freed unwritten
    display_manager,   \* firmware::DisplayManager (C++): screens_, conditions_,
                       \*   current_screen_, default_screen_id_
    dm_call,           \* history: the last DisplayManager call; for a tick, the external
                       \*   source, the conditions whose predicate held, the id it
                       \*   passed to switch_to, the current screen before the tick and
                       \*   whether the tick wrote the screen-switch line
    pit_button,        \* a DebouncedInput (filters.h)
    pit_hist,          \* history: the raw samples given to pit_button since its
                       \*   construction, and the call made last
    voice,             \* the VoiceAlertSystem
    s_adc,             \* rd_adc.c s_adc: raw_values[], accumulated[], sample_count[],
                       \*   channel_enabled[]
    adc_task,          \* the input task inside RD_ADC_GetAveraged: its position, its
                       \*   argument and the operands it has loaded
    adc_hist,          \* history, per channel: the samples RD_ADC_DMA_Callback took
                       \*   and their sum, the divisors and the dividends of the
                       \*   averages RD_ADC_GetAveraged returned
    runtime_,          \* firmware::Runtime (C++): bus_, alert_manager_,
                       \*   health_monitor_, logger_, display_
    steady_clock,      \* std::chrono::steady_clock::now(), in ms
    runtime_call,      \* history: the Runtime member function called last
    voice_hist         \* history: the alerts accepted and neither spoken nor cleared,
                       \*   in acceptance order; the last call, what it returned,
                       \*   the alert it spoke and the alert that was due

alertVars == <<numeric_signals, alerts_, active_alerts_, latched_quiet,
               alert_steps, alert_steps_prev>>
runtimeVars == <<bus, display, health_monitor, logger, default_screen, last_call,
                 hm_now, hm_logged, hm_now_prev, hm_logged_prev>>

registryVars == <<s_channels, reg_call, registered, removed, process_runs, values_before>>

stepVars == <<alerts, math_engine, step_now>>

taskVars == <<scheduler_started, pc, call, uptime_seconds>>

lapVars == <<lt, lap_clock, lap_prev, lap_order, lap_orders>>

alogVars == <<adv_logger, sd_card, adv_hist>>

cppVars == <<display_manager, dm_call>>

filterVars == <<pit_button, pit_hist>>

voiceVars == <<voice, voice_hist>>

adcVars == <<s_adc, adc_task, adc_hist>>

cppRuntimeVars == <<runtime_, steady_clock, runtime_call>>

lateVars == <<filterVars, voiceVars, adcVars, cppRuntimeVars>>

moreVars == <<bus_call, bus_before, external, alogVars, cppVars, lateVars>>

extVars == <<stepVars, taskVars, lapVars, moreVars>>

vars == <<alertVars, runtimeVars, registryVars, extVars>>

\* ========================================================================
\* C++ signal bus (device_runtime.cpp) and AlertManager (alerts.cpp)
\* ========================================================================

\* SignalBus::get_numeric: <<value>> for a stored entry, <<>> for std::nullopt
get_numeric(sigs, name) == IF name \in DOMAIN sigs THEN <<sigs[name]>> ELSE <<>>

\* SignalBus::set_numeric: numeric_signals[name] = value
set_numeric(sigs, name, value) ==
    [n \in DOMAIN sigs \cup {name} |-> IF n = name THEN value ELSE sigs[n]]

\* the test `value && *value >= alert.threshold` of AlertManager::evaluate
AlertAsserted(sigs, alert) ==
    /\ get_numeric(sigs, alert.channel) # <<>>
    /\ get_numeric(sigs, alert.channel)[1] >= alert.threshold

\* a plausible slip: the latch test of the else branch without its negation
EvaluateOne_erase_latched(active, sigs, alert) ==
    IF AlertAsserted(sigs, alert) THEN active \cup {alert.id}
    ELSE IF alert.latch_until_ack THEN active \ {alert.id}
    ELSE active

\* one iteration of the loop of AlertManager::evaluate
EvaluateOne(active, sigs, alert) ==
    IF AlertAsserted(sigs, alert) THEN active \cup {alert.id}
    ELSE IF ~alert.latch_until_ack THEN active \ {alert.id}
    ELSE active

\* the loop of AlertManager::evaluate over alerts_[i..], in registration order
RECURSIVE EvaluateFrom(_, _, _, _)
EvaluateFrom(active, sigs, list, i) ==
    IF i > Len(list) THEN active
    ELSE EvaluateFrom(EvaluateOne(active, sigs, list[i]), sigs, list, i + 1)

\* the iterations of the loop of AlertManager::evaluate over alerts_[i..]: an
\* iteration writes the "[ALERT]" line exactly when it takes the first branch
RECURSIVE EvaluateSteps(_, _, _, _)
EvaluateSteps(active, sigs, list, i) ==
    IF i > Len(list) THEN <<>>
    ELSE <<[asserted |-> AlertAsserted(sigs, list[i]),
            before |-> active,
            after |-> EvaluateOne(active, sigs, list[i]),
            notified |-> AlertAsserted(sigs, list[i])]>>
         \o EvaluateSteps(EvaluateOne(active, sigs, list[i]), sigs, list, i + 1)

\* ids asserted by a rule with latch_until_ack in an evaluate call over the bus
LatchedAssertedIds(sigs, list) ==
    {list[i].id : i \in {j \in 1..Len(list) :
                            list[j].latch_until_ack /\ AlertAsserted(sigs, list[j])}}

AlertInit ==
    /\ numeric_signals = [n \in {} |-> 0]
    /\ alerts_ = <<>>
    /\ active_alerts_ = {}
    /\ latched_quiet = [id \in AlertIds |-> -1]
    /\ alert_steps = <<>>
    /\ alert_steps_prev = <<>>

\* SignalBus::set_numeric
CppSetNumeric ==
    \E n \in AlertChannels, v \in AlertValues :
        /\ numeric_signals' = set_numeric(numeric_signals, n, v)
        /\ UNCHANGED <<alerts_, active_alerts_, latched_quiet, alert_steps, alert_steps_prev,
                       runtimeVars, registryVars, extVars>>

\* AlertManager::register_alert
RegisterAlert ==
    \E id \in AlertIds, ch \in AlertChannels, th \in AlertThresholds, latch \in BOOLEAN :
        /\ Len(alerts_) < MaxAlerts
        /\ alerts_' = Append(alerts_, [id |-> id, channel |-> ch, threshold |-> th,
                                       latch_until_ack |-> latch])
        /\ UNCHANGED <<numeric_signals, active_alerts_, latched_quiet, alert_steps,
                       alert_steps_prev, runtimeVars, registryVars, extVars>>

\* AlertManager::evaluate
AlertEvaluate ==
    /\ active_alerts_' = EvaluateFrom(active_alerts_, numeric_signals, alerts_, 1)
    /\ latched_quiet' =
         [id \in AlertIds |->
            IF id \in LatchedAssertedIds(numeric_signals, alerts_) THEN 0
            ELSE IF latched_quiet[id] < 0 THEN -1
            ELSE IF latched_quiet[id] < MaxQuiet THEN latched_quiet[id] + 1
            ELSE MaxQuiet]
    /\ alert_steps' = EvaluateSteps(active_alerts_, numeric_signals, alerts_, 1)
    /\ alert_steps_prev' = alert_steps
    /\ UNCHANGED <<numeric_signals, alerts_, runtimeVars, registryVars, extVars>>

\* AlertManager::acknowledge
Acknowledge ==
    \E id \in AlertIds :
        /\ active_alerts_' = active_alerts_ \ {id}
        /\ latched_quiet' = [latched_quiet EXCEPT ![id] = -1]
        /\ UNCHANGED <<numeric_signals, alerts_, alert_steps, alert_steps_prev,
                       runtimeVars, registryVars, extVars>>

AlertNext == CppSetNumeric \/ RegisterAlert \/ AlertEvaluate \/ Acknowledge

\* ========================================================================
\* C signal bus (signal_bus.c)
\* ========================================================================

\* find_numeric / find_digital: index of the first entry named name, 0 for SIZE_MAX
RECURSIVE find_signal(_, _, _)
find_signal(entries, name, i) ==
    IF i > Len(entries) THEN 0
    ELSE IF entries[i].name = name THEN i
    ELSE find_signal(entries, name, i + 1)

find_numeric(b, name) == find_signal(b.numeric, name, 1)
find_digital(b, name) == find_signal(b.digital, name, 1)

\* signal_bus_init
signal_bus_init == [numeric |-> <<>>, digital |-> <<>>]

\* the upsert shared by signal_bus_set_numeric and signal_bus_set_digital
upsert_signal(entries, idx, capacity, name, value, now_ms) ==
    LET entry == [name |-> name, value |-> value, timestamp_ms |-> now_ms,
                  has_value |-> TRUE]
    IN  IF idx = 0
        THEN IF Len(entries) >= capacity THEN entries ELSE Append(entries, entry)
        ELSE [entries EXCEPT ![idx] = entry]

\* signal_bus_set_numeric
signal_bus_set_numeric(b, name, value, now_ms) ==
    [b EXCEPT !.numeric = upsert_signal(b.numeric, find_numeric(b, name),
                                        MAX_NUMERIC_SIGNALS, name, value, now_ms)]

\* signal_bus_set_digital
signal_bus_set_digital(b, name, value, now_ms) ==
    [b EXCEPT !.digital = upsert_signal(b.digital, find_digital(b, name),
                                        MAX_DIGITAL_SIGNALS, name, value, now_ms)]

\* signal_bus_get_numeric: <<value>> when it returns true, <<>> when false
signal_bus_get_numeric(b, name) ==
    LET idx == find_numeric(b, name)
    IN  IF idx = 0 \/ ~b.numeric[idx].has_value THEN <<>> ELSE <<b.numeric[idx].value>>

\* signal_bus_get_digital: <<value>> when it returns true, <<>> when false
signal_bus_get_digital(b, name) ==
    LET idx == find_digital(b, name)
    IN  IF idx = 0 \/ ~b.digital[idx].has_value THEN <<>> ELSE <<b.digital[idx].value>>

\* signal_bus_timestamp_numeric: 0 when the name has no entry
signal_bus_timestamp_numeric(b, name) ==
    LET idx == find_numeric(b, name)
    IN  IF idx = 0 THEN 0 ELSE b.numeric[idx].timestamp_ms

\* signal_bus_timestamp_digital: 0 when the name has no entry
signal_bus_timestamp_digital(b, name) ==
    LET idx == find_digital(b, name)
    IN  IF idx = 0 THEN 0 ELSE b.digital[idx].timestamp_ms

\* ========================================================================
\* C display manager (display_manager.c)
\* ========================================================================

\* a route predicate (LogicRoute.eval): NULL, or a callback of the shape of
\* cond_pit in runtime.c, true when the named digital signal is present and set
route_eval(route, b) ==
    /\ route.eval # NullFn
    /\ signal_bus_get_digital(b, route.eval) = <<TRUE>>

\* the selection loop of display_tick over routes[i..]
RECURSIVE display_select(_, _, _, _, _)
display_select(routes, b, i, best_priority, selected) ==
    IF i > Len(routes) THEN selected
    ELSE IF route_eval(routes[i], b) /\ routes[i].priority >= best_priority
         THEN display_select(routes, b, i + 1, routes[i].priority, routes[i].target_screen)
         ELSE display_select(routes, b, i + 1, best_priority, selected)

\* display_tick: the screen id left in mgr->current
display_tick(mgr, b) ==
    [mgr EXCEPT !.current = display_select(mgr.routes, b, 1, INT_MIN_PLUS_1, mgr.current)]

\* ========================================================================
\* C health monitor (health_monitor.c) and data logger (data_logger.c)
\* ========================================================================

\* data_logger_record: the line is dropped when the logger is full
data_logger_record(lines, text) ==
    IF Len(lines) >= LOGGER_LINES THEN lines ELSE Append(lines, text)

\* `now_ms - ts > rule->max_age_ms` on uint64_t: for ts > now_ms the difference
\* wraps to 2^64 - (ts - now_ms), which exceeds every max_age_ms of MaxAges
u64_age_exceeds(now_ms, ts, max_age_ms) ==
    IF now_ms >= ts THEN now_ms - ts > max_age_ms ELSE TRUE

\* the body of the loop of health_monitor_evaluate for one rule: TRUE when it
\* reaches data_logger_record
health_rule_logs(rule, b, now_ms) ==
    LET ts == signal_bus_timestamp_numeric(b, rule.signal)
    IN  IF ts = 0 THEN FALSE ELSE u64_age_exceeds(now_ms, ts, rule.max_age_ms)

\* the loop of health_monitor_evaluate over rules[i..]: the logger's lines
RECURSIVE health_monitor_evaluate(_, _, _, _, _)
health_monitor_evaluate(rules, b, lines, now_ms, i) ==
    IF i > Len(rules) THEN lines
    ELSE health_monitor_evaluate(rules, b,
             IF health_rule_logs(rules[i], b, now_ms)
             THEN data_logger_record(lines, [signal |-> rules[i].signal,
                                             max_age_ms |-> rules[i].max_age_ms])
             ELSE lines,
             now_ms, i + 1)

\* ========================================================================
\* Actions of the C runtime
\* ========================================================================

RuntimeInit ==
    /\ bus = signal_bus_init
    /\ display = [routes |-> <<>>, current |-> ""]
    /\ health_monitor = <<>>
    /\ logger = <<>>
    /\ default_screen = ""
    /\ last_call = "init"
    /\ hm_now = 0
    /\ hm_logged = <<>>
    /\ hm_now_prev = 0
    /\ hm_logged_prev = <<>>
    /\ alerts = <<>>
    /\ math_engine = <<>>
    /\ step_now = 0
    /\ bus_call = [name |-> "", value |-> 0, now |-> 0]
    /\ bus_before = signal_bus_init
    /\ external = "EXTERNAL_NONE"

healthHistory == <<hm_now, hm_logged, hm_now_prev, hm_logged_prev>>

\* display_set_default
DisplaySetDefault ==
    \E id \in DefaultScreenIds :
        /\ display' = [display EXCEPT !.current = id]
        /\ default_screen' = id
        /\ last_call' = "display_set_default"
        /\ UNCHANGED <<extVars, registryVars, alertVars, bus, health_monitor, logger, healthHistory>>

\* display_register_route
DisplayRegisterRoute ==
    \E pr \in Priorities, target \in TargetScreenIds, eval \in DigitalNames \cup {NullFn} :
        /\ Len(display.routes) < MaxRoutes
        /\ display' = [display EXCEPT !.routes =
               Append(@, [eval |-> eval, priority |-> pr, target_screen |-> target])]
        /\ last_call' = "display_register_route"
        /\ UNCHANGED <<extVars, registryVars, alertVars, bus, health_monitor, logger, default_screen, healthHistory>>

\* runtime_ingest with is_digital: signal_bus_set_digital(name, value > 0.5, now)
IngestDigital(names, times) ==
    \E name \in names, value \in BOOLEAN, now \in times :
        /\ bus' = signal_bus_set_digital(bus, name, value, now)
        /\ last_call' = "runtime_ingest"
        /\ UNCHANGED <<extVars, registryVars, alertVars, display, health_monitor, logger, default_screen,
                       healthHistory>>

\* runtime_ingest without is_digital: signal_bus_set_numeric(name, value, now)
IngestNumeric(names, values, times) ==
    \E name \in names, value \in values, now \in times :
        /\ bus' = signal_bus_set_numeric(bus, name, value, now)
        /\ last_call' = "runtime_ingest"
        /\ UNCHANGED <<extVars, registryVars, alertVars, display, health_monitor, logger, default_screen,
                       healthHistory>>

\* display_tick
DisplayTick ==
    /\ display' = display_tick(display, bus)
    /\ last_call' = "display_tick"
    /\ UNCHANGED <<extVars, registryVars, alertVars, bus, health_monitor, logger, default_screen, healthHistory>>

\* health_monitor_register
HealthRegister ==
    \E signal \in NumericNames, max_age \in MaxAges :
        /\ Len(health_monitor) < MaxRules
        /\ health_monitor' = Append(health_monitor,
                                    [signal |-> signal, max_age_ms |-> max_age])
        /\ last_call' = "health_monitor_register"
        /\ UNCHANGED <<extVars, registryVars, alertVars, bus, display, logger, default_screen, healthHistory>>

\* health_monitor_evaluate
HealthEvaluate ==
    \E now \in Times :
        /\ logger' = health_monitor_evaluate(health_monitor, bus, logger, now, 1)
        /\ hm_now' = now
        /\ hm_logged' = [i \in 1..Len(health_monitor) |->
               IF health_rule_logs(health_monitor[i], bus, now)
               THEN signal_bus_timestamp_numeric(bus, health_monitor[i].signal)
               ELSE -1]
        /\ hm_now_prev' = hm_now
        /\ hm_logged_prev' = hm_logged
        /\ last_call' = "health_monitor_evaluate"
        /\ UNCHANGED <<extVars, registryVars, alertVars, bus, display, health_monitor, default_screen>>

DisplayNext == DisplaySetDefault \/ DisplayRegisterRoute \/ IngestDigital(DigitalNames, {0}) \/ DisplayTick

\* runtime_ingest under any name, as either variant, at any time
BusNames == {"rpm", "pit_limiter"}
BusValues == {0, 1, NaN}

BusNext == IngestNumeric(BusNames, BusValues, Times) \/ IngestDigital(BusNames, Times)

\* signal_bus_set_numeric called through runtime_ingest, with the call recorded
BusSetNumeric(names, values, times) ==
    \E name \in names, value \in values, now \in times :
        /\ bus' = signal_bus_set_numeric(bus, name, value, now)
        /\ bus_call' = [name |-> name, value |-> value, now |-> now]
        /\ bus_before' = bus
        /\ last_call' = "runtime_ingest"
        /\ UNCHANGED <<stepVars, taskVars, lapVars, external, alogVars, cppVars, lateVars, registryVars, alertVars, display,
                       health_monitor, logger, default_screen, healthHistory>>

\* the next name never used before: the decimal numeral of the entry count plus one
FreshName == ToString(Len(bus.numeric) + 1)

\* a producer that publishes a new name on every call
BusFill == BusSetNumeric({FreshName}, {0}, {0})

\* a producer that republishes the first name
BusUpdate == BusSetNumeric({"1"}, {0, 1}, Times)

CapacityNext == BusFill \/ BusUpdate

HealthNext == HealthRegister \/ IngestNumeric(NumericNames, {0}, Times) \/ HealthEvaluate

\* ========================================================================
\* C math engine (math_engine.c), C alert manager (alerts.c), runtime_step
\* ========================================================================

\* a math callback (MathChannel.eval): math_afr_error of runtime.c
math_afr_error(b) ==
    LET cur == signal_bus_get_numeric(b, "lambda_current")
        tgt == signal_bus_get_numeric(b, "lambda_target")
    IN  IF cur = <<>> \/ tgt = <<>> THEN 0
        ELSE IF isnan(cur[1]) \/ isnan(tgt[1]) THEN NaN
        ELSE cur[1] - tgt[1]

\* the loop of math_engine_evaluate over channels[i..]: the bus it leaves
RECURSIVE math_engine_evaluate(_, _, _, _)
math_engine_evaluate(channels, b, now_ms, i) ==
    IF i > Len(channels) THEN b
    ELSE IF channels[i].eval = NullFn
    THEN math_engine_evaluate(channels, b, now_ms, i + 1)
    ELSE math_engine_evaluate(channels,
             signal_bus_set_numeric(b, channels[i].id, math_afr_error(b), now_ms),
             now_ms, i + 1)

\* the comparison of alert_manager_evaluate; a comparison with NAN is false
alert_condition(alert, value) ==
    /\ ~isnan(value)
    /\ IF alert.greater_than THEN value > alert.threshold ELSE value < alert.threshold

\* alert_manager_evaluate: the alerts with their active flags rewritten
alert_manager_evaluate(list, b) ==
    [i \in 1..Len(list) |->
        LET value == signal_bus_get_numeric(b, list[i].signal)
        IN  IF value = <<>> THEN list[i]
            ELSE [list[i] EXCEPT !.active = alert_condition(list[i], value[1])]]

\* a plausible slip: the alerts are evaluated before the math engine has run
runtime_step_alerts_first(rt, now) ==
    LET a1 == alert_manager_evaluate(rt.alerts, rt.bus)
        b1 == math_engine_evaluate(rt.math_engine, rt.bus, now, 1)
    IN  [rt EXCEPT !.bus = b1,
                   !.alerts = a1,
                   !.logger = health_monitor_evaluate(rt.health_monitor, b1, rt.logger, now, 1),
                   !.display = display_tick(rt.display, b1)]

\* runtime_step: math engine, alerts, health monitor, display, in this order
runtime_step(rt, now) ==
    LET b1 == math_engine_evaluate(rt.math_engine, rt.bus, now, 1)
        a1 == alert_manager_evaluate(rt.alerts, b1)
        l1 == health_monitor_evaluate(rt.health_monitor, b1, rt.logger, now, 1)
        d1 == display_tick(rt.display, b1)
    IN  [rt EXCEPT !.bus = b1, !.alerts = a1, !.logger = l1, !.display = d1]

\* ------------------------------------------------------------------------
\* Profiles the model loads
\* ------------------------------------------------------------------------
LambdaNames == {"lambda_current", "lambda_target"}

ProfileAlerts ==
    {[id |-> "afr_lean", signal |-> "afr_error", threshold |-> 0,
      greater_than |-> gt, active |-> FALSE] : gt \in BOOLEAN}
    \cup {[id |-> "lambda_high", signal |-> "lambda_current", threshold |-> 0,
           greater_than |-> TRUE, active |-> FALSE]}

ProfileMath == {[id |-> "afr_error", eval |-> e] : e \in {"math_afr_error", NullFn}}

ProfileHealth ==
    {[signal |-> sg, max_age_ms |-> 0] : sg \in {"afr_error", "lambda_current"}}

ProfileRoutes == {<<>>, <<[eval |-> "pit_limiter", priority |-> 5, target_screen |-> "race"]>>}

\* runtime_load_profile, for a profile of one alert, one math channel, at most
\* one health rule and at most one route; the model loads one profile
RuntimeLoadProfile ==
    \E alert \in ProfileAlerts, ch \in ProfileMath, rule \in ProfileHealth,
       routes \in ProfileRoutes, with_rule \in BOOLEAN :
        /\ last_call = "init"
        /\ display' = [routes |-> routes, current |-> "main"]
        /\ default_screen' = "main"
        /\ alerts' = <<alert>>
        /\ math_engine' = <<ch>>
        /\ health_monitor' = IF with_rule THEN <<rule>> ELSE <<>>
        /\ last_call' = "runtime_load_profile"
        /\ UNCHANGED <<bus, logger, step_now, healthHistory, alertVars, registryVars, taskVars, lapVars, moreVars>>

\* runtime_step
RuntimeStep ==
    \E now \in Times \ {0} :
        LET rt == runtime_step([bus |-> bus, alerts |-> alerts, math_engine |-> math_engine,
                                health_monitor |-> health_monitor, logger |-> logger,
                                display |-> display], now)
        IN  /\ bus' = rt.bus
            /\ alerts' = rt.alerts
            /\ logger' = rt.logger
            /\ display' = rt.display
            /\ step_now' = now
            /\ last_call' = "runtime_step"
            /\ UNCHANGED <<math_engine, health_monitor, default_screen, healthHistory,
                           alertVars, registryVars, taskVars, lapVars, moreVars>>

\* runtime_set_external
ExternalSources == {"EXTERNAL_NONE", "EXTERNAL_HDMI", "EXTERNAL_CARPLAY"}

RuntimeSetExternal ==
    \E source \in ExternalSources :
        /\ external' = source
        /\ last_call' = "runtime_set_external"
        /\ UNCHANGED <<bus, display, health_monitor, logger, default_screen, healthHistory,
                       bus_call, bus_before, alogVars, cppVars, lateVars, stepVars, taskVars, lapVars, alertVars,
                       registryVars>>

StepNext ==
    \/ RuntimeLoadProfile
    \/ IngestNumeric(LambdaNames, NumericValues, {1})
    \/ IngestDigital({"pit_limiter"}, {1})
    \/ RuntimeStep

VideoNext ==
    \/ RuntimeLoadProfile
    \/ IngestDigital({"pit_limiter"}, {1})
    \/ RuntimeSetExternal
    \/ RuntimeStep

\* ========================================================================
\* Firmware channel registry (rd_channel.c)
\* ========================================================================

\* find_channel_index: index of the first def with this id, 0 for -1
RECURSIVE find_channel_from(_, _, _)
find_channel_from(defs, channel_id, i) ==
    IF i > Len(defs) THEN 0
    ELSE IF defs[i].id = channel_id THEN i
    ELSE find_channel_from(defs, channel_id, i + 1)

find_channel_index(ch, channel_id) == find_channel_from(ch.defs, channel_id, 1)

\* RD_Channel_GetValue: NAN for an unknown id
RD_Channel_GetValue(ch, channel_id) ==
    LET idx == find_channel_index(ch, channel_id)
    IN  IF idx = 0 THEN NaN ELSE ch.data[idx].value

\* RD_Channel_GetDef: <<def>> for a registered id, <<>> for NULL
RD_Channel_GetDef(ch, channel_id) ==
    LET idx == find_channel_index(ch, channel_id)
    IN  IF idx = 0 THEN <<>> ELSE <<ch.defs[idx]>>

\* the inputs[] array of evaluate_logic: each referenced value, NAN read as 0
logic_input(ch, cfg, i) ==
    IF i > Len(cfg.input_channels) THEN 0
    ELSE LET v == RD_Channel_GetValue(ch, cfg.input_channels[i])
         IN  IF isnan(v) THEN 0 ELSE v

\* evaluate_logic, for the operations the model registers
evaluate_logic(ch, cfg) ==
    LET in0 == logic_input(ch, cfg, 1)
        n == Len(cfg.input_channels)
    IN  CASE cfg.operation = "RD_LOGIC_AND" ->
                 IF \E i \in 1..n : logic_input(ch, cfg, i) = 0 THEN 0 ELSE 1
          [] cfg.operation = "RD_LOGIC_OR" ->
                 IF \E i \in 1..n : logic_input(ch, cfg, i) # 0 THEN 1 ELSE 0
          [] cfg.operation = "RD_LOGIC_NOT" -> IF in0 = 0 THEN 1 ELSE 0
          [] cfg.operation = "RD_LOGIC_GT" -> IF in0 > cfg.parameters[1] THEN 1 ELSE 0
          [] cfg.operation = "RD_LOGIC_SUM" ->
                 logic_input(ch, cfg, 1) + logic_input(ch, cfg, 2)
                     + logic_input(ch, cfg, 3) + logic_input(ch, cfg, 4)
          [] cfg.operation = "RD_LOGIC_DIFF" -> in0 - logic_input(ch, cfg, 2)
          [] cfg.operation = "RD_LOGIC_HYSTERESIS" ->
                 IF in0 >= cfg.parameters[2] THEN 1
                 ELSE IF in0 <= cfg.parameters[1] THEN 0
                 ELSE cfg.parameters[3]
          [] OTHER -> in0

\* the data[] entry RD_Channel_Register writes for a new channel
initial_data ==
    [value |-> NaN, valid |-> FALSE, raw_value |-> NaN, update_count |-> 0,
     error_count |-> 0]

\* the array after RD_Channel_Unregister shifts the entries behind idx down
remove_at(arr, idx) ==
    [i \in 1..(Len(arr) - 1) |-> IF i < idx THEN arr[i] ELSE arr[i + 1]]

\* a plausible slip: a duplicate id overwrites the stored definition
RD_Channel_Register_overwrite(ch, def) ==
    LET idx == find_channel_index(ch, def.id)
    IN  IF ~ch.initialized THEN [ch |-> ch, rc |-> "RD_ERR_NOT_INITIALIZED"]
        ELSE IF idx > 0
        THEN [ch |-> [ch EXCEPT !.defs[idx] = def], rc |-> "RD_ERR_ALREADY_EXISTS"]
        ELSE [ch |-> [ch EXCEPT !.defs = Append(@, def), !.data = Append(@, initial_data)],
              rc |-> "RD_OK"]

\* RD_Channel_Register: the registry after the call and the return code
RD_Channel_Register(ch, def) ==
    IF ~ch.initialized THEN [ch |-> ch, rc |-> "RD_ERR_NOT_INITIALIZED"]
    ELSE IF find_channel_index(ch, def.id) > 0 THEN [ch |-> ch, rc |-> "RD_ERR_ALREADY_EXISTS"]
    ELSE IF Len(ch.defs) >= MAX_CHANNELS THEN [ch |-> ch, rc |-> "RD_ERR_NO_MEMORY"]
    ELSE [ch |-> [ch EXCEPT !.defs = Append(@, def), !.data = Append(@, initial_data)],
          rc |-> "RD_OK"]

\* RD_Channel_Unregister: the registry after the call and the return code
RD_Channel_Unregister(ch, channel_id) ==
    LET idx == find_channel_index(ch, channel_id)
    IN  IF ~ch.initialized THEN [ch |-> ch, rc |-> "RD_ERR_NOT_INITIALIZED"]
        ELSE IF idx = 0 THEN [ch |-> ch, rc |-> "RD_ERR_NOT_FOUND"]
        ELSE [ch |-> [ch EXCEPT !.defs = remove_at(@, idx), !.data = remove_at(@, idx)],
              rc |-> "RD_OK"]

\* RD_Channel_SetValue: the registry after the call and the return code
RD_Channel_SetValue(ch, channel_id, value) ==
    LET idx == find_channel_index(ch, channel_id)
    IN  IF idx = 0 THEN [ch |-> ch, rc |-> "RD_ERR_NOT_FOUND"]
        ELSE [ch |-> [ch EXCEPT !.data[idx].value = value,
                                !.data[idx].valid = ~isnan(value),
                                !.data[idx].update_count = @ + 1],
              rc |-> "RD_OK"]

\* apply_analog_processing, for the input types computed as raw * scale + offset
\* (RD_ANALOG_VOLTAGE and the default branch), clamped to [min_value, max_value]
apply_analog_processing(cfg, raw) ==
    LET value == raw * cfg.scale + cfg.offset
    IN  IF isnan(value) THEN value
        ELSE IF value < cfg.min_value THEN cfg.min_value
        ELSE IF value > cfg.max_value THEN cfg.max_value
        ELSE value

\* apply_digital_processing: RD_DIGITAL_ON_OFF, and the default branch (raw)
apply_digital_processing(cfg, raw) ==
    IF cfg.input_type = "RD_DIGITAL_ON_OFF"
    THEN IF cfg.inverted THEN (IF raw = 0 THEN 1 ELSE 0) ELSE (IF raw # 0 THEN 1 ELSE 0)
    ELSE raw

\* apply_filter, over whole-number alpha
apply_filter(current, new_value, alpha) ==
    IF isnan(current) THEN new_value
    ELSE IF alpha <= 0 \/ alpha >= 1 THEN new_value
    ELSE current * (1 - alpha) + new_value * alpha

\* RD_Channel_UpdateRaw: the registry after the call and the return code
RD_Channel_UpdateRaw(ch, channel_id, raw_value) ==
    LET idx == find_channel_index(ch, channel_id)
        def == ch.defs[idx]
        analog == apply_analog_processing(def.analog, raw_value)
        processed_value ==
            IF def.type = "RD_CH_TYPE_ANALOG_IN"
            THEN IF def.analog.filter_alpha > 0
                 THEN apply_filter(ch.data[idx].value, analog, def.analog.filter_alpha)
                 ELSE analog
            ELSE apply_digital_processing(def.digital, raw_value)
    IN  IF idx = 0 THEN [ch |-> ch, rc |-> "RD_ERR_NOT_FOUND"]
        ELSE IF ~def.enabled THEN [ch |-> ch, rc |-> "RD_ERR_DISABLED"]
        ELSE IF def.type \notin {"RD_CH_TYPE_ANALOG_IN", "RD_CH_TYPE_DIGITAL_IN"}
        THEN [ch |-> ch, rc |-> "RD_ERR_INVALID_TYPE"]
        ELSE [ch |-> [ch EXCEPT !.data[idx].raw_value = raw_value,
                                !.data[idx].value = processed_value,
                                !.data[idx].valid = ~isnan(processed_value),
                                !.data[idx].update_count = @ + 1],
              rc |-> "RD_OK"]

\* the loop of RD_Channel_Process over defs[i..]: each enabled Logic channel is
\* evaluated against the registry as the earlier iterations left it
RECURSIVE RD_Channel_Process(_, _)
RD_Channel_Process(ch, i) ==
    IF i > Len(ch.defs) THEN ch
    ELSE IF ch.defs[i].enabled /\ ch.defs[i].type = "RD_CH_TYPE_LOGIC"
    THEN LET result == evaluate_logic(ch, ch.defs[i].logic)
         IN  RD_Channel_Process([ch EXCEPT !.data[i].value = result,
                                           !.data[i].valid = ~isnan(result),
                                           !.data[i].update_count = @ + 1], i + 1)
    ELSE RD_Channel_Process(ch, i + 1)

\* the values of the channels, in array order
channel_values(ch) == [i \in 1..Len(ch.data) |-> ch.data[i].value]

\* ------------------------------------------------------------------------
\* Channel definitions the model registers
\* ------------------------------------------------------------------------
ChannelIds == {1, 2, 3}
LogicIds == {1, 2}
NoLogic == [operation |-> "none", input_channels |-> <<>>, parameters |-> <<0>>]

SystemDefs ==
    {[id |-> id, type |-> "RD_CH_TYPE_SYSTEM", enabled |-> en, logic |-> NoLogic] :
        id \in ChannelIds, en \in BOOLEAN}

LogicDefs ==
    {[id |-> id, type |-> "RD_CH_TYPE_LOGIC", enabled |-> TRUE,
      logic |-> [operation |-> op, input_channels |-> <<in>>, parameters |-> <<0>>]] :
        id \in LogicIds, op \in {"RD_LOGIC_NOT", "RD_LOGIC_GT"}, in \in ChannelIds}

\* the definitions of the logic-engine specification: one enabled input
\* channel (id 3) and single-input Logic channels over it and over each other
EngineDefs == {d \in SystemDefs : d.id = 3 /\ d.enabled} \cup LogicDefs

\* the definitions of the input specification: an analog input (id 1, volts
\* clamped to [0, 1]), a digital on/off input (id 2) and a Logic channel
\* (id 3) that negates the digital input
NoAnalog == [input_type |-> "none", scale |-> 0, offset |-> 0, min_value |-> 0,
             max_value |-> 0, filter_alpha |-> 0]
NoDigital == [input_type |-> "none", inverted |-> FALSE]
RawValues == {0, 2}

InputDefs ==
    {[id |-> 1, type |-> "RD_CH_TYPE_ANALOG_IN", enabled |-> en, logic |-> NoLogic,
      analog |-> [input_type |-> "RD_ANALOG_VOLTAGE", scale |-> 1, offset |-> 0,
                  min_value |-> 0, max_value |-> 1, filter_alpha |-> 0],
      digital |-> NoDigital] : en \in BOOLEAN}
    \cup
    {[id |-> 2, type |-> "RD_CH_TYPE_DIGITAL_IN", enabled |-> TRUE, logic |-> NoLogic,
      analog |-> NoAnalog,
      digital |-> [input_type |-> "RD_DIGITAL_ON_OFF", inverted |-> FALSE]]}
    \cup
    {[id |-> 3, type |-> "RD_CH_TYPE_LOGIC", enabled |-> TRUE,
      logic |-> [operation |-> "RD_LOGIC_NOT", input_channels |-> <<2>>, parameters |-> <<0>>],
      analog |-> NoAnalog, digital |-> NoDigital]}

\* ------------------------------------------------------------------------
\* Actions of the registry
\* ------------------------------------------------------------------------
RegistryInit ==
    /\ s_channels = [defs |-> <<>>, data |-> <<>>, initialized |-> FALSE]
    /\ reg_call = [op |-> "none", id |-> 0, rc |-> "RD_OK"]
    /\ registered = {}
    /\ removed = {}
    /\ process_runs = 0
    /\ values_before = <<>>

\* RD_Channel_Init
ChannelInit ==
    /\ s_channels' = [defs |-> <<>>, data |-> <<>>, initialized |-> TRUE]
    /\ reg_call' = [op |-> "init", id |-> 0, rc |-> "RD_OK"]
    /\ registered' = {}
    /\ process_runs' = 0
    /\ UNCHANGED <<removed, values_before, alertVars, runtimeVars, extVars>>

\* RD_Channel_Deinit
ChannelDeinit ==
    /\ s_channels' = [defs |-> <<>>, data |-> <<>>, initialized |-> FALSE]
    /\ reg_call' = [op |-> "deinit", id |-> 0, rc |-> "RD_OK"]
    /\ registered' = {}
    /\ process_runs' = 0
    /\ UNCHANGED <<removed, values_before, alertVars, runtimeVars, extVars>>

\* RD_Channel_Register
ChannelRegister(defs) ==
    \E def \in defs :
        LET r == RD_Channel_Register(s_channels, def)
        IN  /\ s_channels' = r.ch
            /\ reg_call' = [op |-> "register", id |-> def.id, rc |-> r.rc]
            /\ registered' = IF r.rc = "RD_OK" THEN registered \cup {def.id} ELSE registered
            /\ process_runs' = 0
            /\ UNCHANGED <<removed, values_before, alertVars, runtimeVars, extVars>>

\* RD_Channel_Unregister
ChannelUnregister ==
    \E id \in ChannelIds :
        LET r == RD_Channel_Unregister(s_channels, id)
        IN  /\ s_channels' = r.ch
            /\ reg_call' = [op |-> "unregister", id |-> id, rc |-> r.rc]
            /\ registered' = IF r.rc = "RD_OK" THEN registered \ {id} ELSE registered
            /\ removed' = IF r.rc = "RD_OK" THEN removed \cup {id} ELSE removed
            /\ process_runs' = 0
            /\ UNCHANGED <<values_before, alertVars, runtimeVars, extVars>>

\* RD_Channel_SetValue
ChannelSetValue(ids, values) ==
    \E id \in ids, value \in values :
        LET r == RD_Channel_SetValue(s_channels, id, value)
        IN  /\ \A i \in 1..Len(s_channels.data) :
                   s_channels.defs[i].id = id => s_channels.data[i].update_count < MaxUpdates
            /\ s_channels' = r.ch
            /\ reg_call' = [op |-> "set_value", id |-> id, rc |-> r.rc]
            /\ process_runs' = 0
            /\ UNCHANGED <<registered, removed, values_before, alertVars, runtimeVars, extVars>>

\* RD_Channel_Process
ChannelProcess ==
    /\ \A i \in 1..Len(s_channels.data) :
           (s_channels.defs[i].enabled /\ s_channels.defs[i].type = "RD_CH_TYPE_LOGIC") =>
               s_channels.data[i].update_count < MaxUpdates
    /\ s_channels' = RD_Channel_Process(s_channels, 1)
    /\ reg_call' = [op |-> "process", id |-> 0, rc |-> "RD_OK"]
    /\ process_runs' = IF process_runs < 2 THEN process_runs + 1 ELSE 2
    /\ values_before' = channel_values(s_channels)
    /\ UNCHANGED <<registered, removed, alertVars, runtimeVars, extVars>>

\* RD_Channel_UpdateRaw
ChannelUpdateRaw ==
    \E id \in ChannelIds, raw_value \in RawValues :
        LET r == RD_Channel_UpdateRaw(s_channels, id, raw_value)
        IN  /\ \A i \in 1..Len(s_channels.data) :
                   s_channels.defs[i].id = id => s_channels.data[i].update_count < MaxUpdates
            /\ s_channels' = r.ch
            /\ reg_call' = [op |-> "update_raw", id |-> id, rc |-> r.rc]
            /\ process_runs' = 0
            /\ UNCHANGED <<registered, removed, values_before, alertVars, runtimeVars, extVars>>

RegistryNext ==
    \/ ChannelInit
    \/ ChannelDeinit
    \/ ChannelRegister(SystemDefs \cup LogicDefs)
    \/ ChannelUnregister

EngineNext ==
    \/ ChannelInit
    \/ ChannelRegister(EngineDefs)
    \/ ChannelSetValue({3}, {0, 1})
    \/ ChannelProcess

\* the definitions of the hysteresis specification: an input channel (id 3)
\* and a Hysteresis Logic channel (id 1) over it with parameters [30, 70, 0]
HysteresisInputs == {20, 40, 60, 80}

HysteresisDefs ==
    {d \in SystemDefs : d.id = 3 /\ d.enabled}
    \cup
    {[id |-> 1, type |-> "RD_CH_TYPE_LOGIC", enabled |-> TRUE,
      logic |-> [operation |-> "RD_LOGIC_HYSTERESIS", input_channels |-> <<3>>,
                 parameters |-> <<30, 70, 0>>]]}

HysteresisNext ==
    \/ ChannelInit
    \/ ChannelRegister(HysteresisDefs)
    \/ ChannelSetValue({3}, HysteresisInputs)
    \/ ChannelProcess

\* the definitions of the arithmetic specification: an input channel (id 3,
\* holding NAN until its first RD_Channel_SetValue) and a Sum or Diff Logic
\* channel (id 1) over channel 3 and over channel 2, which is never registered
ArithmeticInputs == {1, 5}
ArithmeticOperations == {"RD_LOGIC_SUM", "RD_LOGIC_DIFF"}

ArithmeticDefs ==
    {d \in SystemDefs : d.id = 3 /\ d.enabled}
    \cup
    {[id |-> 1, type |-> "RD_CH_TYPE_LOGIC", enabled |-> TRUE,
      logic |-> [operation |-> op, input_channels |-> <<3, 2>>, parameters |-> <<0>>]] :
        op \in ArithmeticOperations}

ArithmeticNext ==
    \/ ChannelInit
    \/ ChannelRegister(ArithmeticDefs)
    \/ ChannelUnregister
    \/ ChannelSetValue({3}, ArithmeticInputs)
    \/ ChannelProcess

InputNext ==
    \/ ChannelInit
    \/ ChannelRegister(InputDefs)
    \/ ChannelSetValue({2, 3}, {0})
    \/ ChannelUpdateRaw
    \/ ChannelProcess

\* ========================================================================
\* Firmware tasks (main.c): the callers of the registry after the scheduler
\* has started.  No caller takes s_mutex_channels, so a call is a sequence of
\* separate reads and writes that other tasks can interleave with.
\* ========================================================================
Tasks == {"timer", "gps", "can"}

NoCall == [id |-> 0, value |-> 0, idx |-> 0]

TaskInit ==
    /\ scheduler_started = FALSE
    /\ pc = [t \in Tasks |-> "idle"]
    /\ call = [t \in Tasks |-> NoCall]
    /\ uptime_seconds = 0

\* the entries of system_channels[] the modelled tasks write
system_channels ==
    <<[id |-> RD_CH_SYSTEM_UPTIME, type |-> "RD_CH_TYPE_SYSTEM", enabled |-> TRUE,
       logic |-> NoLogic],
      [id |-> RD_CH_SYSTEM_GPS_STATUS, type |-> "RD_CH_TYPE_SYSTEM", enabled |-> TRUE,
       logic |-> NoLogic]>>

\* the loop of register_system_channels over system_channels[i..]
RECURSIVE register_system_channels(_, _)
register_system_channels(ch, i) ==
    IF i > Len(system_channels) THEN ch
    ELSE register_system_channels(RD_Channel_Register(ch, system_channels[i]).ch, i + 1)

\* main(): RD_Channel_Init, register_system_channels, task creation and
\* vTaskStartScheduler
MainBoot ==
    /\ ~scheduler_started
    /\ s_channels' = register_system_channels(
                        [defs |-> <<>>, data |-> <<>>, initialized |-> TRUE], 1)
    /\ reg_call' = [op |-> "register", id |-> RD_CH_SYSTEM_GPS_STATUS, rc |-> "RD_OK"]
    /\ registered' = {RD_CH_SYSTEM_UPTIME, RD_CH_SYSTEM_GPS_STATUS}
    /\ scheduler_started' = TRUE
    /\ UNCHANGED <<removed, process_runs, values_before, pc, call, uptime_seconds,
                   alertVars, runtimeVars, stepVars, lapVars, moreVars>>

\* a task enters RD_Channel_SetValue(id, value) and runs find_channel_index
EnterSetValue(t, id, value) ==
    LET idx == find_channel_index(s_channels, id)
    IN  /\ scheduler_started
        /\ pc[t] = "idle"
        /\ idx > 0 => s_channels.data[idx].update_count < MaxUpdates
        /\ call' = [call EXCEPT ![t] = [id |-> id, value |-> value, idx |-> idx]]
        /\ pc' = [pc EXCEPT ![t] = IF idx = 0 THEN "idle" ELSE "write_value"]

\* uptime_timer_callback, up to the call of RD_Channel_SetValue
TimerCallback ==
    /\ EnterSetValue("timer", RD_CH_SYSTEM_UPTIME, uptime_seconds + 1)
    /\ uptime_seconds' = uptime_seconds + 1
    /\ UNCHANGED <<s_channels, reg_call, registered, removed, process_runs, values_before,
                   scheduler_started, alertVars, runtimeVars, stepVars, lapVars, moreVars>>

\* the loop of task_gps, up to the call of RD_Channel_SetValue
TaskGps ==
    \E has_fix \in BOOLEAN :
        /\ EnterSetValue("gps", RD_CH_SYSTEM_GPS_STATUS, IF has_fix THEN 2 ELSE 1)
        /\ UNCHANGED <<s_channels, reg_call, registered, removed, process_runs, values_before,
                       scheduler_started, uptime_seconds, alertVars, runtimeVars, stepVars, lapVars, moreVars>>

\* RD_Channel_SetValue: `data[idx].value.value = value`
SetValueWriteValue(t) ==
    /\ pc[t] = "write_value"
    /\ s_channels' = [s_channels EXCEPT !.data[call[t].idx].value = call[t].value]
    /\ pc' = [pc EXCEPT ![t] = "write_valid"]
    /\ UNCHANGED <<reg_call, registered, removed, process_runs, values_before, call,
                   scheduler_started, uptime_seconds, alertVars, runtimeVars, stepVars, lapVars, moreVars>>

\* RD_Channel_SetValue: `data[idx].value.valid = !isnan(value)`
SetValueWriteValid(t) ==
    /\ pc[t] = "write_valid"
    /\ s_channels' = [s_channels EXCEPT !.data[call[t].idx].valid = ~isnan(call[t].value)]
    /\ pc' = [pc EXCEPT ![t] = "count"]
    /\ UNCHANGED <<reg_call, registered, removed, process_runs, values_before, call,
                   scheduler_started, uptime_seconds, alertVars, runtimeVars, stepVars, lapVars, moreVars>>

\* RD_Channel_SetValue: `data[idx].update_count++` and return
SetValueCount(t) ==
    /\ pc[t] = "count"
    /\ s_channels' = [s_channels EXCEPT !.data[call[t].idx].update_count = @ + 1]
    /\ pc' = [pc EXCEPT ![t] = "idle"]
    /\ call' = [call EXCEPT ![t] = NoCall]
    /\ reg_call' = [op |-> "set_value", id |-> call[t].id, rc |-> "RD_OK"]
    /\ UNCHANGED <<registered, removed, process_runs, values_before,
                   scheduler_started, uptime_seconds, alertVars, runtimeVars, stepVars, lapVars, moreVars>>

\* the loop of task_can enters RD_Channel_Process
TaskCan ==
    /\ scheduler_started
    /\ pc["can"] = "idle"
    /\ pc' = [pc EXCEPT !["can"] = "process"]
    /\ call' = [call EXCEPT !["can"] = [id |-> 0, value |-> 0, idx |-> 1]]
    /\ UNCHANGED <<s_channels, reg_call, registered, removed, process_runs, values_before,
                   scheduler_started, uptime_seconds, alertVars, runtimeVars, stepVars, lapVars, moreVars>>

\* one iteration of the loop of RD_Channel_Process over defs[idx], or its exit
ProcessIteration ==
    LET i == call["can"].idx
    IN  /\ pc["can"] = "process"
        /\ IF i > Len(s_channels.defs)
           THEN /\ pc' = [pc EXCEPT !["can"] = "idle"]
                /\ call' = [call EXCEPT !["can"] = NoCall]
                /\ UNCHANGED s_channels
           ELSE /\ call' = [call EXCEPT !["can"].idx = i + 1]
                /\ s_channels' =
                       IF s_channels.defs[i].enabled /\ s_channels.defs[i].type = "RD_CH_TYPE_LOGIC"
                       THEN LET result == evaluate_logic(s_channels, s_channels.defs[i].logic)
                            IN  [s_channels EXCEPT !.data[i].value = result,
                                                   !.data[i].valid = ~isnan(result),
                                                   !.data[i].update_count = @ + 1]
                       ELSE s_channels
                /\ UNCHANGED pc
        /\ UNCHANGED <<reg_call, registered, removed, process_runs, values_before,
                       scheduler_started, uptime_seconds, alertVars, runtimeVars, stepVars, lapVars, moreVars>>

TaskNext ==
    \/ MainBoot
    \/ TimerCallback
    \/ TaskGps
    \/ \E t \in Tasks : SetValueWriteValue(t)
    \/ \E t \in Tasks : SetValueWriteValid(t)
    \/ \E t \in Tasks : SetValueCount(t)
    \/ TaskCan
    \/ ProcessIteration

\* ========================================================================
\* Lap timer (lap_timer.cpp)
\* ========================================================================

\* positions are metres along a line: haversine_distance is the distance
\* between two of them
haversine_distance(p1, p2) == IF p1 >= p2 THEN p1 - p2 ELSE p2 - p1

\* lap_timer_check_crossing
lap_timer_check_crossing(pos, point) == haversine_distance(pos, point.pos) <= point.radius_m

\* a LapRecord after memset(0), for a track of n sectors
zero_lap(n) ==
    [lap_number |-> 0, lap_time_ms |-> 0, sector_times_ms |-> [i \in 1..n |-> 0],
     is_valid |-> FALSE]

\* lap_timer_init
lap_timer_init ==
    [track_loaded |-> FALSE, start_finish |-> [pos |-> 0, radius_m |-> 0], sectors |-> <<>>,
     laps |-> <<>>, best_lap |-> zero_lap(0), current_lap |-> zero_lap(0),
     in_lap_now |-> FALSE, lap_start_time_ms |-> 0, sector_triggered |-> <<>>]

\* lap_timer_load_track
lap_timer_load_track(t, track) ==
    [t EXCEPT !.track_loaded = TRUE, !.start_finish = track.start_finish,
              !.sectors = track.sectors]

\* a plausible slip: the record numbered with lap_count, not lap_count + 1
lap_timer_finish_line_number_from_zero(t, pos, timestamp_ms) ==
    LET n == Len(t.sectors)
        lap == [lap_number |-> Len(t.laps),
                lap_time_ms |-> timestamp_ms - t.lap_start_time_ms,
                sector_times_ms |-> t.current_lap.sector_times_ms,
                is_valid |-> TRUE]
        recorded == t.in_lap_now /\ Len(t.laps) < MAX_LAPS
        closed ==
            IF ~t.in_lap_now THEN t
            ELSE [t EXCEPT
                    !.laps = IF recorded THEN Append(@, lap) ELSE @,
                    !.best_lap = IF recorded /\ (@.lap_time_ms = 0 \/ lap.lap_time_ms < @.lap_time_ms)
                                 THEN lap ELSE @,
                    !.current_lap = zero_lap(n),
                    !.sector_triggered = [i \in 1..n |-> FALSE]]
    IN  IF ~lap_timer_check_crossing(pos, t.start_finish) THEN t
        ELSE [closed EXCEPT !.in_lap_now = TRUE, !.lap_start_time_ms = timestamp_ms]

\* lap_timer_update, first part: a fix inside the start/finish radius closes
\* the running lap, records it and starts the next one
lap_timer_finish_line(t, pos, timestamp_ms) ==
    LET n == Len(t.sectors)
        lap == [lap_number |-> Len(t.laps) + 1,
                lap_time_ms |-> timestamp_ms - t.lap_start_time_ms,
                sector_times_ms |-> t.current_lap.sector_times_ms,
                is_valid |-> TRUE]
        recorded == t.in_lap_now /\ Len(t.laps) < MAX_LAPS
        closed ==
            IF ~t.in_lap_now THEN t
            ELSE [t EXCEPT
                    !.laps = IF recorded THEN Append(@, lap) ELSE @,
                    !.best_lap = IF recorded /\ (@.lap_time_ms = 0 \/ lap.lap_time_ms < @.lap_time_ms)
                                 THEN lap ELSE @,
                    !.current_lap = zero_lap(n),
                    !.sector_triggered = [i \in 1..n |-> FALSE]]
    IN  IF ~lap_timer_check_crossing(pos, t.start_finish) THEN t
        ELSE [closed EXCEPT !.in_lap_now = TRUE, !.lap_start_time_ms = timestamp_ms]

\* lap_timer_update, second part: every sector not yet triggered whose radius
\* holds the fix is stamped with timestamp_ms - lap_start_time_ms
lap_timer_sectors(t, pos, timestamp_ms) ==
    LET hit(i) == ~t.sector_triggered[i] /\ lap_timer_check_crossing(pos, t.sectors[i])
    IN  IF ~t.in_lap_now THEN t
        ELSE [t EXCEPT
                !.sector_triggered = [i \in 1..Len(t.sectors) |-> @[i] \/ hit(i)],
                !.current_lap.sector_times_ms =
                    [i \in 1..Len(t.sectors) |->
                        IF hit(i) THEN timestamp_ms - t.lap_start_time_ms ELSE @[i]]]

\* lap_timer_update
lap_timer_update(t, pos, timestamp_ms) ==
    IF ~t.track_loaded THEN t
    ELSE lap_timer_sectors(lap_timer_finish_line(t, pos, timestamp_ms), pos, timestamp_ms)

\* the tracks the model loads: start/finish at 0 and sector lines at 1 and 2,
\* every radius 0
Positions == 0..3
Tracks ==
    {[start_finish |-> [pos |-> 0, radius_m |-> 0],
      sectors |-> [i \in 1..n |-> [pos |-> i, radius_m |-> 0]]] : n \in {1, 2}}

LapInit ==
    /\ lt = lap_timer_init
    /\ lap_clock = 0
    /\ lap_prev = <<>>
    /\ lap_order = <<>>
    /\ lap_orders = <<>>

\* the sector lines walked so far in the lap, after a fix at pos; the sector
\* lines of the model's tracks are disjoint, so a fix lies on at most one
walked(t, order, pos) ==
    LET on == {i \in 1..Len(t.sectors) : lap_timer_check_crossing(pos, t.sectors[i])}
        i == CHOOSE i \in on : TRUE
    IN  IF on = {} \/ ~t.in_lap_now THEN order
        ELSE IF order # <<>> /\ order[Len(order)] = i THEN order
        ELSE Append(order, i)

\* lap_timer_load_track, on a timer that has not started a lap
LapTimerLoadTrack ==
    \E track \in Tracks :
        /\ ~lt.track_loaded
        /\ lt' = [lap_timer_load_track(lt, track) EXCEPT
                     !.current_lap = zero_lap(Len(track.sectors)),
                     !.best_lap = zero_lap(Len(track.sectors)),
                     !.sector_triggered = [i \in 1..Len(track.sectors) |-> FALSE]]
        /\ UNCHANGED <<lap_clock, lap_prev, lap_order, lap_orders, alertVars, runtimeVars,
                       registryVars, stepVars, taskVars, moreVars>>

\* lap_timer_update as loop() calls it: with a new GPS fix at a later
\* millisecond, or with the fix of the previous call again, in the same
\* millisecond or a later one
LapTimerUpdate ==
    \E pos \in Positions, dt \in {0, 1} :
        /\ lap_clock < MaxTime
        /\ Len(lt.laps) < MaxLapCount
        /\ dt = 0 => lap_prev = <<pos>>
        /\ lap_clock' = lap_clock + dt
        /\ lt' = lap_timer_update(lt, pos, lap_clock + dt)
        /\ lap_prev' = IF lt.track_loaded THEN <<pos>> ELSE lap_prev
        /\ lap_order' = IF lt.track_loaded /\ lap_timer_check_crossing(pos, lt.start_finish)
                        THEN walked(lt', <<>>, pos)
                        ELSE walked(lt', lap_order, pos)
        /\ lap_orders' = IF Len(lt'.laps) > Len(lt.laps) THEN Append(lap_orders, lap_order)
                         ELSE lap_orders
        /\ UNCHANGED <<alertVars, runtimeVars, registryVars, stepVars, taskVars, moreVars>>

LapNext == LapTimerLoadTrack \/ LapTimerUpdate

\* lap_timer_update on a loaded track with a fix on the start/finish line in
\* every millisecond, until the laps[] array is full and two crossings more
LapTimerLineFix ==
    /\ lt.track_loaded
    /\ lap_clock < MaxFixes
    /\ lap_clock' = lap_clock + 1
    /\ lt' = lap_timer_update(lt, lt.start_finish.pos, lap_clock + 1)
    /\ lap_prev' = <<lt.start_finish.pos>>
    /\ lap_order' = walked(lt', <<>>, lt.start_finish.pos)
    /\ lap_orders' = IF Len(lt'.laps) > Len(lt.laps) THEN Append(lap_orders, lap_order)
                     ELSE lap_orders
    /\ UNCHANGED <<alertVars, runtimeVars, registryVars, stepVars, taskVars, moreVars>>

LapFullNext == LapTimerLoadTrack \/ LapTimerLineFix

\* ========================================================================
\* Advanced logger (advanced_logger.cpp).  Sizes are counted in samples of
\* the binary format: one LogSample takes SAMPLE_SIZE of the write buffer.
\* ========================================================================
SAMPLE_SIZE == 1
THRESHOLD_VALUE == 1

\* write_buffer_used
write_buffer_used(l) == Len(l.write_buffer) * SAMPLE_SIZE

\* what a slot of freshly allocated storage is taken to hold; no slot is read
\* before it is written
NoSample == [channel |-> "", value |-> 0, timestamp_ms |-> 0]

\* the RingBuffer inside a logger after memset(logger, 0): no storage
no_ring_buffer ==
    [samples |-> <<>>, allocated |-> FALSE, capacity |-> 0, count |-> 0,
     write_index |-> 0, read_index |-> 0, is_full |-> FALSE]

\* ring_buffer_init, malloc succeeding (for capacity 0 too: malloc(0) may
\* return a pointer to no storage)
ring_buffer_init(capacity) ==
    [samples |-> [i \in 0..(capacity - 1) |-> NoSample], allocated |-> TRUE,
     capacity |-> capacity, count |-> 0, write_index |-> 0, read_index |-> 0,
     is_full |-> FALSE]

\* ring_buffer_free
ring_buffer_free(rb) == [rb EXCEPT !.samples = <<>>, !.allocated = FALSE]

\* ring_buffer_push has defined behaviour: samples[write_index] is storage
\* of the buffer and the remainder is not by zero
ring_usable(rb) == rb.allocated /\ rb.capacity >= 1

\* ring_buffer_push on a usable buffer
ring_buffer_push(rb, sample) ==
    LET stored == [rb EXCEPT !.samples[rb.write_index] = sample,
                             !.write_index = (rb.write_index + 1) % rb.capacity]
    IN  IF rb.is_full THEN [stored EXCEPT !.read_index = (rb.read_index + 1) % rb.capacity]
        ELSE [stored EXCEPT !.count = rb.count + 1,
                            !.is_full = (rb.count + 1 = rb.capacity)]

\* what ring_buffer_push may leave of a buffer that is not usable, when the
\* program goes on: the memcpy went to memory that is not the buffer's and
\* the remainder by zero gave some index
FaultOutcomes == {"reset", "index_0", "index_1"}

ring_buffer_push_undefined(rb, fault) ==
    LET stored == [rb EXCEPT !.write_index = IF fault = "index_0" THEN 0 ELSE 1]
    IN  IF rb.is_full THEN stored
        ELSE [stored EXCEPT !.count = rb.count + 1,
                            !.is_full = (rb.count + 1 = rb.capacity)]

\* the samples a reader finds from read_index on, oldest first
ring_contents(rb) ==
    IF ~ring_usable(rb) THEN <<>>
    ELSE [k \in 1..rb.count |-> rb.samples[(rb.read_index + k - 1) % rb.capacity]]

\* the configurations the model initialises a logger with: rate RingCapacity
\* samples per second and a pre-trigger duration of nothing, of less than
\* one sample period, or of one second
PreTriggerDurations == {0, 1, 1000}
DefaultConfig == [pre_trigger_duration_ms |-> 1000, default_sample_rate_hz |-> RingCapacity]
LogConfigs ==
    {[pre_trigger_duration_ms |-> d, default_sample_rate_hz |-> RingCapacity] :
        d \in PreTriggerDurations}

\* advanced_logger_init, both allocations succeeding
advanced_logger_init(config) ==
    [state |-> "LOG_STATE_STOPPED", trigger_mode |-> "TRIGGER_MODE_NONE",
     is_armed |-> FALSE, is_triggered |-> FALSE,
     ring_buffer |-> IF config.pre_trigger_duration_ms > 0
                     THEN ring_buffer_init((config.pre_trigger_duration_ms
                                               * config.default_sample_rate_hz) \div 1000)
                     ELSE no_ring_buffer,
     write_buffer |-> <<>>, file_handle |-> FALSE, total_samples_written |-> 0,
     samples_dropped |-> 0, error_count |-> 0, allocated |-> TRUE]

\* a plausible slip: the buffer kept after a complete write
advanced_logger_flush_keep_buffer(l, sd, written) ==
    IF ~l.file_handle \/ write_buffer_used(l) = 0 THEN [l |-> l, sd |-> sd, ret |-> FALSE]
    ELSE IF written = Len(l.write_buffer)
    THEN [l |-> l, sd |-> [sd EXCEPT !.file = @ \o l.write_buffer], ret |-> TRUE]
    ELSE [l |-> l, sd |-> [sd EXCEPT !.file = @ \o SubSeq(l.write_buffer, 1, written)],
          ret |-> FALSE]

\* advanced_logger_flush: `written` is what File::write returns, in samples
advanced_logger_flush(l, sd, written) ==
    IF ~l.file_handle \/ write_buffer_used(l) = 0 THEN [l |-> l, sd |-> sd, ret |-> FALSE]
    ELSE IF written = Len(l.write_buffer)
    THEN [l |-> [l EXCEPT !.write_buffer = <<>>],
          sd |-> [sd EXCEPT !.file = @ \o l.write_buffer], ret |-> TRUE]
    ELSE [l |-> l, sd |-> [sd EXCEPT !.file = @ \o SubSeq(l.write_buffer, 1, written)],
          ret |-> FALSE]

\* advanced_logger_start: `open_ok` is whether SD.open returns a file
advanced_logger_start(l, sd, open_ok) ==
    IF l.state = "LOG_STATE_RECORDING" THEN [l |-> l, sd |-> sd, ret |-> FALSE]
    ELSE IF ~open_ok THEN [l |-> [l EXCEPT !.state = "LOG_STATE_ERROR"], sd |-> sd, ret |-> FALSE]
    ELSE [l |-> [l EXCEPT !.file_handle = TRUE, !.state = "LOG_STATE_RECORDING",
                          !.total_samples_written = 0],
          sd |-> [file |-> <<>>, open |-> sd.open + 1], ret |-> TRUE]

\* advanced_logger_stop
advanced_logger_stop(l, sd, written) ==
    LET f == advanced_logger_flush(l, sd, written)
    IN  IF l.state # "LOG_STATE_RECORDING" THEN [l |-> l, sd |-> sd, ret |-> FALSE]
        ELSE [l |-> [f.l EXCEPT !.file_handle = FALSE, !.state = "LOG_STATE_STOPPED"],
              sd |-> IF f.l.file_handle THEN [f.sd EXCEPT !.open = @ - 1] ELSE f.sd,
              ret |-> TRUE]

\* advanced_logger_log_sample, binary format, no whitelist, every sample on
\* the trigger channel; `write_ok` is whether File::write takes the whole
\* buffer; `fault` is what a ring_buffer_push on a buffer that is not usable
\* does: the processor takes an exception and the firmware restarts, or the
\* program goes on
advanced_logger_log_sample(l, sd, sample, open_ok, write_ok, fault) ==
    IF l.state \in {"LOG_STATE_ARMED", "LOG_STATE_PRE_TRIGGER"}
          /\ ~ring_usable(l.ring_buffer) /\ fault = "reset"
    THEN [l |-> advanced_logger_init(DefaultConfig), sd |-> [sd EXCEPT !.open = 0],
          ret |-> FALSE]
    ELSE IF l.state \in {"LOG_STATE_ARMED", "LOG_STATE_PRE_TRIGGER"}
    THEN LET pushed == [l EXCEPT !.ring_buffer =
                                     IF ring_usable(@) THEN ring_buffer_push(@, sample)
                                     ELSE ring_buffer_push_undefined(@, fault)]
             triggered == sample.value > THRESHOLD_VALUE
         IN  IF l.trigger_mode = "TRIGGER_MODE_THRESHOLD" /\ triggered /\ ~l.is_triggered
             THEN LET s == advanced_logger_start([pushed EXCEPT !.is_triggered = TRUE], sd, open_ok)
                  IN  [l |-> s.l, sd |-> s.sd, ret |-> TRUE]
             ELSE [l |-> pushed, sd |-> sd, ret |-> TRUE]
    ELSE IF l.state # "LOG_STATE_RECORDING" THEN [l |-> l, sd |-> sd, ret |-> FALSE]
    ELSE LET fits == write_buffer_used(l) + SAMPLE_SIZE < WriteBufferSize
             buffered == [l EXCEPT !.write_buffer = IF fits THEN Append(@, sample) ELSE @,
                                   !.total_samples_written = @ + 1]
             f == advanced_logger_flush(buffered, sd,
                                        IF write_ok THEN Len(buffered.write_buffer) ELSE 0)
         IN  IF write_buffer_used(buffered) * 10 >= WriteBufferSize * 8
             THEN [l |-> f.l, sd |-> f.sd, ret |-> TRUE]
             ELSE [l |-> buffered, sd |-> sd, ret |-> TRUE]

\* advanced_logger_deinit: a recording logger is stopped, then both buffers
\* are freed with whatever they hold
advanced_logger_deinit(l, sd, written) ==
    LET s == IF l.state = "LOG_STATE_RECORDING" THEN advanced_logger_stop(l, sd, written)
             ELSE [l |-> l, sd |-> sd, ret |-> FALSE]
    IN  [l |-> [s.l EXCEPT !.ring_buffer = ring_buffer_free(@), !.write_buffer = <<>>,
                           !.allocated = FALSE],
         sd |-> s.sd, lost |-> s.l.write_buffer]

\* ------------------------------------------------------------------------
\* Actions of the advanced logger
\* ------------------------------------------------------------------------
SampleValues == {0, 2}
TriggerModes == {"TRIGGER_MODE_MANUAL", "TRIGGER_MODE_THRESHOLD"}

\* what File::write may return for a buffer of n samples: all of it, or nothing
Written(n) == {0, n}

AdvInit0 ==
    [op |-> "init", logged |-> 0, discarded |-> 0, storage_failed |-> FALSE,
     head |-> <<>>, lost |-> <<>>, pushes |-> <<>>, pushed_into |-> <<>>,
     written |-> <<>>]

LoggerInit ==
    /\ adv_logger = advanced_logger_init(DefaultConfig)
    /\ sd_card = [file |-> <<>>, open |-> 0]
    /\ adv_hist = AdvInit0

otherThanLogger == <<alertVars, runtimeVars, registryVars, stepVars, taskVars, lapVars,
                     bus_call, bus_before, external, cppVars, lateVars>>

\* advanced_logger_init on a logger that was deinitialised
AdvLoggerInit ==
    \E config \in LogConfigs :
        /\ ~adv_logger.allocated
        /\ adv_logger' = advanced_logger_init(config)
        /\ sd_card' = sd_card
        /\ adv_hist' = [AdvInit0 EXCEPT !.logged = adv_hist.logged]
        /\ UNCHANGED otherThanLogger

\* advanced_logger_set_trigger: pre_trigger_ms is stored in the configuration,
\* which no function reads after advanced_logger_init; the ring buffer stays
\* as advanced_logger_init left it
AdvSetTrigger ==
    \E mode \in TriggerModes, pre_trigger_ms \in PreTriggerDurations :
        /\ adv_logger.allocated
        /\ adv_logger' = [adv_logger EXCEPT !.trigger_mode = mode,
                                            !.is_armed = FALSE, !.is_triggered = FALSE]
        /\ adv_hist' = [adv_hist EXCEPT !.op = "set_trigger", !.pushed_into = <<>>]
        /\ UNCHANGED <<sd_card, otherThanLogger>>

\* advanced_logger_arm_trigger
AdvArmTrigger ==
    /\ adv_logger.allocated
    /\ adv_logger' = [adv_logger EXCEPT !.state = "LOG_STATE_ARMED", !.is_armed = TRUE,
                                        !.is_triggered = FALSE]
    /\ adv_hist' = [adv_hist EXCEPT !.op = "arm_trigger"]
    /\ UNCHANGED <<sd_card, otherThanLogger>>

\* the history after a call that may have started a recording: a failed open
\* is a storage failure, and a start from the armed state owes the file the
\* pre-trigger samples
started(l, r, open_ok, op) ==
    LET opened == r.sd.open > sd_card.open
        tried == l.state # "LOG_STATE_RECORDING"
    IN  [adv_hist EXCEPT
            !.op = op,
            !.storage_failed = @ \/ (tried /\ ~open_ok),
            !.head = IF ~opened THEN @
                     ELSE IF l.state \in {"LOG_STATE_ARMED", "LOG_STATE_PRE_TRIGGER"}
                     THEN ring_contents(r.l.ring_buffer) ELSE <<>>]

\* advanced_logger_manual_trigger
AdvManualTrigger ==
    \E open_ok \in BOOLEAN :
        LET r == advanced_logger_start([adv_logger EXCEPT !.is_triggered = TRUE], sd_card, open_ok)
        IN  /\ adv_logger.allocated
            /\ adv_logger.trigger_mode = "TRIGGER_MODE_MANUAL"
            /\ sd_card.open < MaxOpenFiles
            /\ adv_logger' = r.l
            /\ sd_card' = r.sd
            /\ adv_hist' = started(adv_logger, r, open_ok, "manual_trigger")
            /\ UNCHANGED otherThanLogger

\* advanced_logger_start
AdvStart ==
    \E open_ok \in BOOLEAN :
        LET r == advanced_logger_start(adv_logger, sd_card, open_ok)
        IN  /\ adv_logger.allocated
            /\ sd_card.open < MaxOpenFiles
            /\ adv_logger' = r.l
            /\ sd_card' = r.sd
            /\ adv_hist' = [started(adv_logger, r, open_ok, "start") EXCEPT
                               !.head = IF r.sd.open > sd_card.open THEN <<>> ELSE @]
            /\ UNCHANGED otherThanLogger

\* the history after a call that may have flushed
flushed(l, written, op) ==
    LET tried == l.file_handle /\ l.write_buffer # <<>>
    IN  [adv_hist EXCEPT !.op = op,
                         !.storage_failed = @ \/ (tried /\ written # Len(l.write_buffer))]

\* advanced_logger_stop
AdvStop ==
    \E written \in Written(Len(adv_logger.write_buffer)) :
        LET r == advanced_logger_stop(adv_logger, sd_card, written)
        IN  /\ adv_logger.allocated
            /\ adv_logger' = r.l
            /\ sd_card' = r.sd
            /\ adv_hist' = IF adv_logger.state = "LOG_STATE_RECORDING"
                           THEN flushed(adv_logger, written, "stop")
                           ELSE [adv_hist EXCEPT !.op = "stop"]
            /\ UNCHANGED otherThanLogger

\* advanced_logger_pause
AdvPause ==
    /\ adv_logger.allocated
    /\ adv_logger' = IF adv_logger.state = "LOG_STATE_RECORDING"
                     THEN [adv_logger EXCEPT !.state = "LOG_STATE_PAUSED"] ELSE adv_logger
    /\ adv_hist' = [adv_hist EXCEPT !.op = "pause"]
    /\ UNCHANGED <<sd_card, otherThanLogger>>

\* advanced_logger_resume
AdvResume ==
    /\ adv_logger.allocated
    /\ adv_logger' = IF adv_logger.state = "LOG_STATE_PAUSED"
                     THEN [adv_logger EXCEPT !.state = "LOG_STATE_RECORDING"] ELSE adv_logger
    /\ adv_hist' = [adv_hist EXCEPT !.op = "resume"]
    /\ UNCHANGED <<sd_card, otherThanLogger>>

\* advanced_logger_log_sample
AdvLogSample ==
    \E value \in SampleValues, open_ok \in BOOLEAN, write_ok \in BOOLEAN,
       fault \in FaultOutcomes :
        LET sample == [channel |-> "rpm", value |-> value, timestamp_ms |-> adv_hist.logged + 1]
            r == advanced_logger_log_sample(adv_logger, sd_card, sample, open_ok, write_ok,
                                            fault)
            recording == adv_logger.state = "LOG_STATE_RECORDING"
            pushes == adv_logger.state \in {"LOG_STATE_ARMED", "LOG_STATE_PRE_TRIGGER"}
            restarts == pushes /\ ~ring_usable(adv_logger.ring_buffer) /\ fault = "reset"
            triggers == /\ adv_logger.state \in {"LOG_STATE_ARMED", "LOG_STATE_PRE_TRIGGER"}
                        /\ adv_logger.trigger_mode = "TRIGGER_MODE_THRESHOLD"
                        /\ value > THRESHOLD_VALUE
                        /\ ~adv_logger.is_triggered
            fits == write_buffer_used(adv_logger) + SAMPLE_SIZE < WriteBufferSize
            kept == [adv_logger EXCEPT !.write_buffer = IF fits THEN Append(@, sample) ELSE @]
            flushes == recording /\ write_buffer_used(kept) * 10 >= WriteBufferSize * 8
            h1 == IF flushes
                  THEN flushed(kept, IF write_ok THEN Len(kept.write_buffer) ELSE 0, "log_sample")
                  ELSE IF triggers THEN started(adv_logger, r, open_ok, "log_sample")
                  ELSE [adv_hist EXCEPT !.op = "log_sample"]
        IN  /\ adv_logger.allocated
            /\ adv_hist.logged < MaxSamples
            /\ triggers => sd_card.open < MaxOpenFiles
            /\ adv_logger' = r.l
            /\ sd_card' = r.sd
            /\ adv_hist' =
                   [(IF restarts THEN [AdvInit0 EXCEPT !.op = "log_sample"] ELSE h1) EXCEPT
                       !.logged = IF r.ret \/ restarts THEN adv_hist.logged + 1
                                  ELSE adv_hist.logged,
                       !.discarded = IF recording /\ ~fits THEN @ + 1 ELSE @,
                       !.pushes = IF pushes /\ ~restarts THEN Append(@, sample) ELSE @,
                       !.pushed_into = IF pushes
                                       THEN <<[allocated |-> adv_logger.ring_buffer.allocated,
                                               capacity |-> adv_logger.ring_buffer.capacity]>>
                                       ELSE <<>>,
                       !.written = IF flushes /\ kept.file_handle /\ kept.write_buffer # <<>>
                                   THEN <<IF write_ok THEN Len(kept.write_buffer) ELSE 0>>
                                   ELSE <<>>]
            /\ UNCHANGED otherThanLogger

\* advanced_logger_flush
AdvFlush ==
    \E written \in Written(Len(adv_logger.write_buffer)) :
        LET r == advanced_logger_flush(adv_logger, sd_card, written)
        IN  /\ adv_logger.allocated
            /\ adv_logger' = r.l
            /\ sd_card' = r.sd
            /\ adv_hist' = flushed(adv_logger, written, "flush")
            /\ UNCHANGED otherThanLogger

\* advanced_logger_clear_error
AdvClearError ==
    /\ adv_logger.allocated
    /\ adv_logger' = [adv_logger EXCEPT !.error_count = 0]
    /\ adv_hist' = [adv_hist EXCEPT !.op = "clear_error", !.storage_failed = FALSE]
    /\ UNCHANGED <<sd_card, otherThanLogger>>

\* advanced_logger_deinit
AdvDeinit ==
    \E written \in Written(Len(adv_logger.write_buffer)) :
        LET r == advanced_logger_deinit(adv_logger, sd_card, written)
        IN  /\ adv_logger.allocated
            /\ adv_logger' = r.l
            /\ sd_card' = r.sd
            /\ adv_hist' = [(IF adv_logger.state = "LOG_STATE_RECORDING"
                             THEN flushed(adv_logger, written, "deinit")
                             ELSE adv_hist)
                            EXCEPT !.op = "deinit", !.lost = r.lost]
            /\ UNCHANGED otherThanLogger

\* arming and triggering
PreTriggerNext ==
    \/ AdvSetTrigger
    \/ AdvArmTrigger
    \/ AdvManualTrigger
    \/ AdvLogSample

\* arming loggers of every configuration
ArmingNext ==
    \/ AdvDeinit
    \/ AdvLoggerInit
    \/ AdvSetTrigger
    \/ AdvArmTrigger
    \/ AdvLogSample

\* recording to a card whose opens and writes can fail
RecordingNext ==
    \/ AdvStart
    \/ AdvStop
    \/ AdvLogSample
    \/ AdvFlush
    \/ AdvClearError

\* a session from start to shutdown
ShutdownNext ==
    \/ AdvStart
    \/ AdvLogSample
    \/ AdvPause
    \/ AdvResume
    \/ AdvStop
    \/ AdvDeinit
    \/ AdvLoggerInit

\* ========================================================================
\* DebouncedInput (filters.h)
\* ========================================================================

Thresholds == {1, 2, 3}                  \* DebouncedInput.threshold_cycles

\* DebouncedInput{id, state, 0, threshold_cycles}
debounced_input(state, threshold_cycles) ==
    [state |-> state, stable_cycles |-> 0, threshold_cycles |-> threshold_cycles]

debounced_input_update_no_reset(d, raw) ==
    IF raw = d.state THEN d
    ELSE IF d.stable_cycles + 1 >= d.threshold_cycles
         THEN [d EXCEPT !.state = raw, !.stable_cycles = 0]
         ELSE [d EXCEPT !.stable_cycles = @ + 1]

debounced_input_update(d, raw) ==
    IF raw = d.state THEN [d EXCEPT !.stable_cycles = 0]
    ELSE IF d.stable_cycles + 1 >= d.threshold_cycles
         THEN [d EXCEPT !.state = raw, !.stable_cycles = 0]
         ELSE [d EXCEPT !.stable_cycles = @ + 1]

\* DebouncedInput pit_button{"pit", false, 0, 2}
FilterInit ==
    /\ pit_button = debounced_input(FALSE, 2)
    /\ pit_hist = [op |-> "construct", samples |-> <<>>]

otherThanFilter == <<alertVars, runtimeVars, registryVars, stepVars, taskVars, lapVars,
                     bus_call, bus_before, external, alogVars, cppVars, voiceVars, adcVars,
                     cppRuntimeVars>>

\* the construction of a DebouncedInput
DebouncedConstruct ==
    \E state \in BOOLEAN, threshold_cycles \in Thresholds :
        /\ pit_button' = debounced_input(state, threshold_cycles)
        /\ pit_hist' = [op |-> "construct", samples |-> <<>>]
        /\ UNCHANGED otherThanFilter

\* debounced_input_update
DebouncedUpdate ==
    \E raw \in BOOLEAN :
        /\ Len(pit_hist.samples) < MaxRaw
        /\ pit_button' = debounced_input_update(pit_button, raw)
        /\ pit_hist' = [op |-> "update", samples |-> Append(pit_hist.samples, raw)]
        /\ UNCHANGED otherThanFilter

FilterNext == DebouncedConstruct \/ DebouncedUpdate

\* ========================================================================
\* VoiceAlertSystem (voice_alerts.cpp)
\* ========================================================================

\* the priority of the n-th alert offered: the offers alternate between the
\* lowest and the highest VoicePriority, so every queued alert has an alert
\* of the other priority right behind it
VoicePriorityOf(n) == IF n % 2 = 0 THEN "VOICE_PRIORITY_CRITICAL" ELSE "VOICE_PRIORITY_LOW"

\* a VoiceAlert after memset(voice, 0, ..): VOICE_PRIORITY_LOW is enumerator 0
NoVoiceAlert == [message |-> 0, priority |-> "VOICE_PRIORITY_LOW", is_spoken |-> FALSE]

\* voice_alerts_init
voice_alerts_init ==
    [alerts |-> [i \in 0..(VOICE_MAX_QUEUE_SIZE - 1) |-> NoVoiceAlert],
     head |-> 0, tail |-> 0, count |-> 0,
     is_muted |-> FALSE, is_speaking |-> FALSE,
     total_alerts_spoken |-> 0, alerts_dropped |-> 0]

\* voice_alerts_update
voice_alerts_update(v) ==
    IF v.is_muted \/ v.count = 0 \/ v.is_speaking THEN v
    ELSE [v EXCEPT !.alerts[v.head].is_spoken = TRUE,
                   !.head = (v.head + 1) % VOICE_MAX_QUEUE_SIZE,
                   !.count = @ - 1,
                   !.total_alerts_spoken = @ + 1]

\* voice_alert_queue
voice_alert_queue(v, priority, message) ==
    IF v.count >= VOICE_MAX_QUEUE_SIZE
    THEN [v |-> [v EXCEPT !.alerts_dropped = @ + 1], ret |-> FALSE]
    ELSE [v |-> [v EXCEPT !.alerts[v.tail] = [message |-> message, priority |-> priority,
                                                  is_spoken |-> FALSE],
                          !.tail = (v.tail + 1) % VOICE_MAX_QUEUE_SIZE,
                          !.count = @ + 1],
          ret |-> TRUE]

voice_alert_clear_queue_keep_tail(v) == [v EXCEPT !.head = 0, !.count = 0]

\* voice_alert_clear_queue
voice_alert_clear_queue(v) == [v EXCEPT !.head = 0, !.tail = 0, !.count = 0]

\* the alerts in the queue, from head on
queued_alerts(v) ==
    [i \in 1..v.count |-> v.alerts[(v.head + i - 1) % VOICE_MAX_QUEUE_SIZE]]

VoiceInit ==
    /\ voice = voice_alerts_init
    /\ voice_hist = [op |-> "init", ret |-> TRUE, offers |-> 0, clears |-> 0,
                     pending |-> <<>>,
                     spoken |-> <<>>, due |-> <<>>, spoken_before |-> <<>>,
                     count_before |-> 0, dropped_before |-> 0]

otherThanVoice == <<alertVars, runtimeVars, registryVars, stepVars, taskVars, lapVars,
                    bus_call, bus_before, external, alogVars, cppVars, filterVars, adcVars,
                    cppRuntimeVars>>

\* voice_alert_queue; the message of the n-th offer is n
VoiceAlertQueue ==
    LET n == voice_hist.offers + 1
        r == voice_alert_queue(voice, VoicePriorityOf(n), n)
    IN  /\ voice_hist.offers < MaxOffers
        /\ voice' = r.v
        /\ voice_hist' = [voice_hist EXCEPT
                             !.op = "queue", !.ret = r.ret, !.offers = n,
                             !.pending = IF r.ret THEN Append(@, n) ELSE @,
                             !.count_before = voice.count,
                             !.dropped_before = voice.alerts_dropped]
        /\ UNCHANGED otherThanVoice

\* voice_alerts_update
VoiceAlertsUpdate ==
    LET speaks == voice'.total_alerts_spoken > voice.total_alerts_spoken
    IN  /\ voice.total_alerts_spoken < MaxSpoken
        /\ voice' = voice_alerts_update(voice)
        /\ voice_hist' = [voice_hist EXCEPT
                             !.op = "update", !.ret = TRUE,
                             !.spoken = IF speaks THEN <<voice.alerts[voice.head].message>>
                                        ELSE <<>>,
                             !.spoken_before = IF voice_hist.spoken # <<>>
                                               THEN voice_hist.spoken ELSE @,
                             !.due = IF voice_hist.pending = <<>> THEN <<>>
                                     ELSE <<Head(voice_hist.pending)>>,
                             !.pending = IF @ = <<>> THEN @ ELSE Tail(@),
                             !.count_before = voice.count,
                             !.dropped_before = voice.alerts_dropped]
        /\ UNCHANGED otherThanVoice

\* voice_alert_clear_queue
VoiceAlertClearQueue ==
    /\ voice_hist.clears < MaxClears
    /\ voice' = voice_alert_clear_queue(voice)
    /\ voice_hist' = [voice_hist EXCEPT !.op = "clear", !.ret = TRUE, !.pending = <<>>,
                                        !.clears = @ + 1,
                                        !.count_before = voice.count,
                                        !.dropped_before = voice.alerts_dropped]
    /\ UNCHANGED otherThanVoice

VoiceNext == VoiceAlertQueue \/ VoiceAlertsUpdate \/ VoiceAlertClearQueue

\* ========================================================================
\* ADC sampling (rd_adc.c): the input task calls RD_ADC_GetAveraged, the
\* DMA-complete interrupt calls RD_ADC_DMA_Callback and preempts the task
\* between any two of its memory accesses
\* ========================================================================

AdcArray == 0..(RD_ADC_NUM_CHANNELS - 1)
AdcChannels == {0, 1}                    \* channels the model samples and reads
AdcSamples == {1, 2}                     \* values the converter delivers

\* RD_ADC_Init
RD_ADC_Init ==
    [raw_values |-> [ch \in AdcArray |-> 0],
     accumulated |-> [ch \in AdcArray |-> 0],
     sample_count |-> [ch \in AdcArray |-> 0],
     channel_enabled |-> [ch \in AdcArray |-> TRUE]]

\* RD_ADC_DMA_Callback
RECURSIVE RD_ADC_DMA_Callback(_, _, _, _)
RD_ADC_DMA_Callback(adc, buffer, count, ch) ==
    IF ~(ch < RD_ADC_NUM_CHANNELS /\ ch < count) THEN adc
    ELSE RD_ADC_DMA_Callback(
             IF adc.channel_enabled[ch]
             THEN [adc EXCEPT !.raw_values[ch] = buffer[ch],
                              !.accumulated[ch] = @ + buffer[ch],
                              !.sample_count[ch] = @ + 1]
             ELSE adc,
             buffer, count, ch + 1)

AdcIdle == [pc |-> "idle", channel |-> 0, loaded |-> {}, accumulated |-> 0, sample_count |-> 0]

AdcInit ==
    /\ s_adc = RD_ADC_Init
    /\ adc_task = AdcIdle
    /\ adc_hist = [calls |-> 0,
                   delivered |-> [ch \in AdcChannels |-> 0],
                   delivered_sum |-> [ch \in AdcChannels |-> 0],
                   divisors |-> [ch \in AdcChannels |-> 0],
                   dividends |-> [ch \in AdcChannels |-> 0],
                   ret |-> 0]

otherThanAdc == <<alertVars, runtimeVars, registryVars, stepVars, taskVars, lapVars,
                  bus_call, bus_before, external, alogVars, cppVars, filterVars, voiceVars,
                  cppRuntimeVars>>

\* the DMA-complete interrupt: the callback runs to its end before the task
\* goes on
AdcDmaComplete ==
    \E count \in {1, 2}, sample \in AdcSamples :
        LET buffer == [ch \in 0..(count - 1) |-> sample + ch]
        IN  /\ adc_hist.calls < MaxDeliveries
            /\ s_adc' = RD_ADC_DMA_Callback(s_adc, buffer, count, 0)
            /\ adc_hist' = [adc_hist EXCEPT
                               !.calls = @ + 1,
                               !.delivered = [ch \in AdcChannels |->
                                                 IF ch < count THEN @[ch] + 1 ELSE @[ch]],
                               !.delivered_sum = [ch \in AdcChannels |->
                                                     IF ch < count THEN @[ch] + buffer[ch]
                                                     ELSE @[ch]]]
            /\ UNCHANGED <<adc_task, otherThanAdc>>

\* RD_ADC_GetAveraged up to `if (s_adc.sample_count[channel] == 0)`
AdcGetAveragedTest ==
    \E channel \in AdcChannels :
        /\ adc_task.pc = "idle"
        /\ IF s_adc.sample_count[channel] = 0
           THEN /\ adc_task' = AdcIdle
                /\ adc_hist' = [adc_hist EXCEPT !.ret = s_adc.raw_values[channel]]
           ELSE /\ adc_task' = [AdcIdle EXCEPT !.pc = "divide", !.channel = channel,
                                               !.sample_count = s_adc.sample_count[channel]]
                /\ UNCHANGED adc_hist
        /\ UNCHANGED <<s_adc, otherThanAdc>>

\* one operand of `accumulated[channel] / sample_count[channel]`: the
\* operands are loaded in either order, and sample_count is loaded again or
\* taken from the test, as the compiler chose
AdcGetAveragedLoad ==
    \E operand \in {"accumulated", "sample_count"} \ adc_task.loaded, reload \in BOOLEAN :
        /\ adc_task.pc = "divide"
        /\ adc_task' = [adc_task EXCEPT
               !.loaded = @ \cup {operand},
               !.pc = IF adc_task.loaded = {} THEN "divide" ELSE "reset_accumulated",
               !.accumulated = IF operand = "accumulated"
                               THEN s_adc.accumulated[adc_task.channel] ELSE @,
               !.sample_count = IF operand = "sample_count" /\ reload
                                THEN s_adc.sample_count[adc_task.channel] ELSE @]
        /\ UNCHANGED <<s_adc, adc_hist, otherThanAdc>>

\* s_adc.accumulated[channel] = 0
AdcGetAveragedResetAccumulated ==
    /\ adc_task.pc = "reset_accumulated"
    /\ s_adc' = [s_adc EXCEPT !.accumulated[adc_task.channel] = 0]
    /\ adc_task' = [adc_task EXCEPT !.pc = "reset_count"]
    /\ UNCHANGED <<adc_hist, otherThanAdc>>

\* s_adc.sample_count[channel] = 0; return avg
AdcGetAveragedResetCount ==
    /\ adc_task.pc = "reset_count"
    /\ s_adc' = [s_adc EXCEPT !.sample_count[adc_task.channel] = 0]
    /\ adc_task' = AdcIdle
    /\ adc_hist' = [adc_hist EXCEPT
                       !.divisors[adc_task.channel] = @ + adc_task.sample_count,
                       !.dividends[adc_task.channel] = @ + adc_task.accumulated,
                       !.ret = adc_task.accumulated \div adc_task.sample_count]
    /\ UNCHANGED otherThanAdc

AdcNext ==
    \/ AdcDmaComplete
    \/ AdcGetAveragedTest
    \/ AdcGetAveragedLoad
    \/ AdcGetAveragedResetAccumulated
    \/ AdcGetAveragedResetCount

\* ========================================================================
\* firmware::DisplayManager (C++, display_manager.cpp)
\* ========================================================================
MaxScreens == 2       \* register_screen calls
MaxConditions == 2    \* register_condition calls

CppScreenIds == {"main", "race", "warning"}
ConditionIds == {"pit", "overheat"}
ConditionPriorities == {1, 2}
\* the screen each condition of the model routes to, and the default screen
ConditionTarget == [pit |-> "warning", overheat |-> "race"]
CppDefaultIds == {"main"}
VideoSources == {"None", "HDMI"}

\* the rearrangements of list: std::sort permutes the entries
Arrangements(list) ==
    {[i \in 1..Len(list) |-> list[q[i]]] :
        q \in {f \in [1..Len(list) -> 1..Len(list)] :
                  \A i, j \in 1..Len(list) : i # j => f[i] # f[j]}}

\* the comparator register_condition gives to std::sort
priority_less(a, b) == a.condition.priority < b.condition.priority

\* what std::sort guarantees of its result: no entry stands before one that
\* compares less (the sort is not stable, so entries of equal priority may
\* come out in either order)
sorted_by_priority(list) ==
    \A i, j \in 1..Len(list) : i < j => ~priority_less(list[j], list[i])

\* DisplayManager::register_screen
register_screen(mgr, screen) == [mgr EXCEPT !.screens_ = Append(@, screen)]

\* DisplayManager::set_default_screen
set_default_screen(mgr, id) == [mgr EXCEPT !.default_screen_id_ = id]

\* a plausible slip: the comparator of the sort turned round
register_condition_descending(mgr, condition, target_screen_id) ==
    {[mgr EXCEPT !.conditions_ = sorted] :
        sorted \in {list \in Arrangements(Append(mgr.conditions_,
                                                  [condition |-> condition,
                                                   target_screen_id |-> target_screen_id])) :
                       \A i, j \in 1..Len(list) : i < j => ~priority_less(list[i], list[j])}}

\* DisplayManager::register_condition: the managers the call may leave
register_condition(mgr, condition, target_screen_id) ==
    {[mgr EXCEPT !.conditions_ = sorted] :
        sorted \in {list \in Arrangements(Append(mgr.conditions_,
                                                  [condition |-> condition,
                                                   target_screen_id |-> target_screen_id])) :
                       sorted_by_priority(list)}}

\* DisplayManager::switch_to
switch_to(mgr, screen_id) ==
    IF \A i \in 1..Len(mgr.screens_) : mgr.screens_[i] # screen_id THEN mgr
    ELSE [mgr EXCEPT !.current_screen_ = screen_id]

\* a plausible slip: the "[DISPLAY] Switched" line written without the
\* comparison with the current screen
switch_emits_every_tick(mgr, screen_id) ==
    \E i \in 1..Len(mgr.screens_) : mgr.screens_[i] = screen_id

\* DisplayManager::switch_to writes the "[DISPLAY] Switched to screen" line
switch_emits(mgr, screen_id) ==
    /\ \E i \in 1..Len(mgr.screens_) : mgr.screens_[i] = screen_id
    /\ mgr.current_screen_ # screen_id

\* the conditions of mgr whose predicate holds, truth being the ids of the
\* conditions whose predicate the bus satisfies
matching(mgr, truth) ==
    {i \in 1..Len(mgr.conditions_) : mgr.conditions_[i].condition.id \in truth}

\* the id DisplayManager::tick passes to switch_to
tick_target(mgr, truth) ==
    IF matching(mgr, truth) = {} THEN mgr.default_screen_id_
    ELSE LET first == CHOOSE i \in matching(mgr, truth) :
                          \A j \in matching(mgr, truth) : i <= j
         IN  mgr.conditions_[first].target_screen_id

\* DisplayManager::tick
tick(mgr, truth, source) ==
    IF source # "None" THEN mgr
    ELSE switch_to(mgr, tick_target(mgr, truth))

CppDisplayInit ==
    /\ display_manager = [screens_ |-> <<>>, conditions_ |-> <<>>,
                          current_screen_ |-> "", default_screen_id_ |-> ""]
    /\ dm_call = [op |-> "none", source |-> "None", truth |-> {}, selected |-> <<>>,
                  before |-> "", switched |-> FALSE]

otherThanCpp == <<alertVars, runtimeVars, registryVars, stepVars, taskVars, lapVars,
                  bus_call, bus_before, external, alogVars, lateVars>>

NoTick == [op |-> "none", source |-> "None", truth |-> {}, selected |-> <<>>,
           before |-> "", switched |-> FALSE]

CppRegisterScreen ==
    \E screen \in CppScreenIds :
        /\ Len(display_manager.screens_) < MaxScreens
        /\ display_manager' = register_screen(display_manager, screen)
        /\ dm_call' = [NoTick EXCEPT !.op = "register_screen"]
        /\ UNCHANGED otherThanCpp

CppSetDefaultScreen ==
    \E id \in CppDefaultIds :
        /\ display_manager' = set_default_screen(display_manager, id)
        /\ dm_call' = [NoTick EXCEPT !.op = "set_default_screen"]
        /\ UNCHANGED otherThanCpp

CppRegisterCondition ==
    \E id \in ConditionIds, priority \in ConditionPriorities :
        /\ Len(display_manager.conditions_) < MaxConditions
        /\ display_manager' \in register_condition(display_manager,
                                                   [id |-> id, priority |-> priority],
                                                   ConditionTarget[id])
        /\ dm_call' = [NoTick EXCEPT !.op = "register_condition"]
        /\ UNCHANGED otherThanCpp

CppTick ==
    \E truth \in SUBSET ConditionIds, source \in VideoSources :
        /\ display_manager' = tick(display_manager, truth, source)
        /\ dm_call' = [op |-> "tick", source |-> source, truth |-> truth,
                       selected |-> IF source # "None" THEN <<>>
                                    ELSE <<tick_target(display_manager, truth)>>,
                       before |-> display_manager.current_screen_,
                       switched |-> /\ source = "None"
                                    /\ switch_emits(display_manager,
                                                    tick_target(display_manager, truth))]
        /\ UNCHANGED otherThanCpp

CppDisplayNext ==
    \/ CppRegisterScreen
    \/ CppSetDefaultScreen
    \/ CppRegisterCondition
    \/ CppTick

\* ========================================================================
\* Specifications
\* ========================================================================
\* ========================================================================
\* firmware::Runtime (C++, runtime.cpp) with its HealthMonitor
\* (health_monitor.cpp) and AlertManager (alerts.cpp)
\* ========================================================================

StaleSignals == {"rpm"}                  \* StaleSignalRule.signal_name
DATA_LOGGER_ENTRIES == 256               \* Runtime::Runtime() : logger_(256)

\* SignalBus::set_numeric of the time-stamped bus: the value and the time of
\* the write
stamped_set_numeric(b, name, value, now) ==
    [n \in DOMAIN b \cup {name} |-> IF n = name THEN [value |-> value, timestamp |-> now]
                                     ELSE b[n]]

\* the values of the time-stamped bus, as SignalBus::get_numeric reads them
stamped_values(b) == [n \in DOMAIN b |-> b[n].value]

\* SignalBus::is_stale_numeric: the signal is missing or older than max_age
is_stale_numeric(b, name, max_age, now) ==
    \/ name \notin DOMAIN b
    \/ now - b[name].timestamp > max_age

\* the Alert HealthMonitor::evaluate registers for a rule
stale_alert(rule) ==
    [id |-> rule.id, channel |-> rule.signal_name, threshold |-> DOUBLE_LOWEST,
     latch_until_ack |-> FALSE]

\* DataLogger::record on a logger that holds `entries` lines
logger_record(entries) == IF entries >= DATA_LOGGER_ENTRIES THEN entries ELSE entries + 1

\* HealthMonitor::evaluate over rules_[i..]
RECURSIVE HealthMonitorEvaluate(_, _, _)
HealthMonitorEvaluate(rt, now, i) ==
    IF i > Len(rt.health_monitor_.rules_) THEN rt
    ELSE LET rule == rt.health_monitor_.rules_[i]
         IN  IF ~is_stale_numeric(rt.bus_, rule.signal_name, rule.max_age, now)
             THEN HealthMonitorEvaluate(rt, now, i + 1)
             ELSE HealthMonitorEvaluate(
                      [rt EXCEPT
                          !.logger_ = logger_record(@),
                          !.health_monitor_.issued_alerts_ = @ \cup {rule.id},
                          !.alert_manager_.alerts_ =
                              IF rule.id \in rt.health_monitor_.issued_alerts_ THEN @
                              ELSE Append(@, stale_alert(rule))],
                      now, i + 1)

\* Runtime::step with no math channel registered
Runtime_step(rt, now) ==
    LET alerted == [rt EXCEPT !.alert_manager_.active_alerts_ =
                       EvaluateFrom(@, stamped_values(rt.bus_), rt.alert_manager_.alerts_, 1)]
        checked == HealthMonitorEvaluate(alerted, now, 1)
    IN  [checked EXCEPT !.display_ = tick(@, {}, "None")]

CppRuntimeInit ==
    /\ runtime_ = [bus_ |-> [n \in {} |-> 0],
                   alert_manager_ |-> [alerts_ |-> <<>>, active_alerts_ |-> {}],
                   health_monitor_ |-> [rules_ |-> <<>>, issued_alerts_ |-> {}],
                   logger_ |-> 0,
                   display_ |-> [screens_ |-> <<>>, conditions_ |-> <<>>,
                                 current_screen_ |-> "", default_screen_id_ |-> ""]]
    /\ steady_clock = 0
    /\ runtime_call = "construct"

otherThanCppRuntime == <<alertVars, runtimeVars, registryVars, stepVars, taskVars, lapVars,
                         bus_call, bus_before, external, alogVars, cppVars, filterVars,
                         voiceVars, adcVars>>

\* Runtime::load_profile with a profile of health rules only
CppRuntimeLoadProfile ==
    \E signal_name \in StaleSignals, max_age \in MaxAges :
        /\ Len(runtime_.health_monitor_.rules_) < MaxRules
        /\ runtime_' = [runtime_ EXCEPT !.health_monitor_.rules_ =
                           Append(@, [id |-> "stale_" \o signal_name,
                                      signal_name |-> signal_name, max_age |-> max_age])]
        /\ runtime_call' = "load_profile"
        /\ UNCHANGED <<steady_clock, otherThanCppRuntime>>

\* Runtime::ingest of one numeric input
CppRuntimeIngest ==
    \E name \in StaleSignals, value \in NumericValues :
        /\ runtime_' = [runtime_ EXCEPT !.bus_ = stamped_set_numeric(@, name, value, steady_clock)]
        /\ runtime_call' = "ingest"
        /\ UNCHANGED <<steady_clock, otherThanCppRuntime>>

\* a millisecond passes
SteadyClockTick ==
    /\ steady_clock < MaxClock
    /\ steady_clock' = steady_clock + 1
    /\ UNCHANGED <<runtime_, runtime_call, otherThanCppRuntime>>

\* Runtime::step
CppRuntimeStep ==
    /\ runtime_' = Runtime_step(runtime_, steady_clock)
    /\ runtime_call' = "step"
    /\ UNCHANGED <<steady_clock, otherThanCppRuntime>>

CppRuntimeNext ==
    \/ CppRuntimeLoadProfile
    \/ CppRuntimeIngest
    \/ SteadyClockTick
    \/ CppRuntimeStep

Init ==
    /\ AlertInit
    /\ RuntimeInit
    /\ RegistryInit
    /\ TaskInit
    /\ LapInit
    /\ LoggerInit
    /\ CppDisplayInit
    /\ FilterInit
    /\ VoiceInit
    /\ AdcInit
    /\ CppRuntimeInit

SpecAlerts == Init /\ [][AlertNext]_vars

SpecDisplay == Init /\ [][DisplayNext]_vars

SpecCppDisplay == Init /\ [][CppDisplayNext]_vars

SpecHealth == Init /\ [][HealthNext]_vars

SpecBus == Init /\ [][BusNext]_vars

SpecCapacity == Init /\ [][CapacityNext]_vars

SpecRegistry == Init /\ [][RegistryNext]_vars

SpecInputs == Init /\ [][InputNext]_vars

SpecHysteresis == Init /\ [][HysteresisNext]_vars

SpecArithmetic == Init /\ [][ArithmeticNext]_vars

SpecEngine == Init /\ [][EngineNext]_vars

SpecRuntime == Init /\ [][StepNext]_vars

SpecVideo == Init /\ [][VideoNext]_vars

SpecTasks == Init /\ [][TaskNext]_vars

SpecLap == Init /\ [][LapNext]_vars

SpecLapFull == Init /\ [][LapFullNext]_vars

SpecPreTrigger == Init /\ [][PreTriggerNext]_vars

SpecArming == Init /\ [][ArmingNext]_vars

SpecRecording == Init /\ [][RecordingNext]_vars

SpecShutdown == Init /\ [][ShutdownNext]_vars

SpecFilter == Init /\ [][FilterNext]_vars

SpecVoice == Init /\ [][VoiceNext]_vars

SpecAdc == Init /\ [][AdcNext]_vars

SpecCppRuntime == Init /\ [][CppRuntimeNext]_vars

\* ========================================================================
\* Claims
\* ========================================================================

\* C1: an id asserted by a rule with latch_until_ack and not
\* acknowledged since is in the active set after every later evaluate call in
\* which no latched rule asserts it.
C1_LatchedStaysActive ==
    \A id \in AlertIds : latched_quiet[id] >= 1 => id \in active_alerts_

\* ------------------------------------------------------------------------
\* display_tick (C)
\* ------------------------------------------------------------------------

\* indices of the routes whose predicate holds on the bus
MatchingRoutes ==
    {i \in 1..Len(display.routes) : route_eval(display.routes[i], bus)}

\* the matching routes of the highest numeric priority
TopRoutes ==
    {i \in MatchingRoutes :
        \A j \in MatchingRoutes : display.routes[j].priority <= display.routes[i].priority}

\* the least element of a non-empty set of indices
MinOf(S) == CHOOSE i \in S : \A j \in S : i <= j

\* C2: after a tick in which some route predicate holds, the
\* current screen is the target of the first-registered route among the
\* matching routes of the highest priority.
C2_HighestPriorityFirstRegistered ==
    (last_call = "display_tick" /\ MatchingRoutes # {})
        => display.current = display.routes[MinOf(TopRoutes)].target_screen

\* C3: once a default screen has been set, after a tick in which no
\* route predicate holds the current screen is the screen given to
\* display_set_default.
C3_NoMatchSelectsDefault ==
    (last_call = "display_tick" /\ default_screen # "" /\ MatchingRoutes = {})
        => display.current = default_screen

\* ------------------------------------------------------------------------
\* health_monitor_evaluate (C)
\* ------------------------------------------------------------------------

\* stale as the specification defines it: no entry, or now - timestamp > max_age
\* as an integer difference
SpecStale(rule, now) ==
    \/ find_numeric(bus, rule.signal) = 0
    \/ now - signal_bus_timestamp_numeric(bus, rule.signal) > rule.max_age_ms

\* C5: an evaluation at time now treats a rule's signal as stale
\* exactly when the signal has no entry or now - timestamp > max_age.
C5_StaleExactly ==
    last_call = "health_monitor_evaluate" =>
        \A i \in 1..Len(health_monitor) :
            (hm_logged[i] >= 0) <=> SpecStale(health_monitor[i], hm_now)

\* C6: a rule writes a line only on the evaluation at which its
\* signal first becomes stale: it never writes a line in two evaluations in a
\* row, the later at no earlier time, for the same write of the signal that
\* was already older than max_age at the first.
C6_LogsOnRisingEdgeOnly ==
    \A i \in 1..Len(hm_logged_prev) :
        ~ /\ hm_logged_prev[i] >= 0
          /\ hm_logged[i] = hm_logged_prev[i]
          /\ hm_now_prev <= hm_now
          /\ hm_now_prev - hm_logged_prev[i] > health_monitor[i].max_age_ms


\* ------------------------------------------------------------------------
\* Channel registry
\* ------------------------------------------------------------------------
Occurrences(id) == {i \in 1..Len(s_channels.defs) : s_channels.defs[i].id = id}

RegistryConsistent ==
    \A id \in registered :
        /\ Cardinality(Occurrences(id)) = 1
        /\ RD_Channel_GetDef(s_channels, id) # <<>>
        /\ RD_Channel_GetDef(s_channels, id)[1].id = id

DuplicateRegisterRejected ==
    (/\ reg_call'.op = "register"
     /\ find_channel_index(s_channels, reg_call'.id) > 0)
        => (reg_call'.rc = "RD_ERR_ALREADY_EXISTS" /\ s_channels' = s_channels)

\* C4: after any sequence of RD_Channel_Register and RD_Channel_Unregister
\* calls, every id registered and not since unregistered occurs exactly once
\* in the registry and RD_Channel_GetDef(id) returns a definition with that
\* id; a Register call with an id already present returns AlreadyExists and
\* leaves the registry as it was.
C4_RegistryUnique == []RegistryConsistent /\ [][DuplicateRegisterRejected]_vars

\* a Register call was rejected as a duplicate after an Unregister had shifted
\* the array, with two ids registered
C4_Witness ==
    /\ reg_call.op = "register"
    /\ reg_call.rc = "RD_ERR_ALREADY_EXISTS"
    /\ removed # {}
    /\ Cardinality(registered) >= 2
    /\ s_channels.defs[1].id > s_channels.defs[2].id

\* ------------------------------------------------------------------------
\* Logic engine
\* ------------------------------------------------------------------------
\* the Logic channel at index i reads the channel id directly
Reads(i, id) ==
    /\ s_channels.defs[i].type = "RD_CH_TYPE_LOGIC"
    /\ \E k \in 1..Len(s_channels.defs[i].logic.input_channels) :
           s_channels.defs[i].logic.input_channels[k] = id

\* ids reachable from the channel at index i along references, n steps deep
RECURSIVE ReachableIds(_, _)
ReachableIds(i, n) ==
    LET direct == {id \in ChannelIds : Reads(i, id)}
    IN  IF n = 0 THEN direct
        ELSE direct \cup UNION {ReachableIds(j, n - 1) :
                 j \in {j \in 1..Len(s_channels.defs) : s_channels.defs[j].id \in direct}}

Acyclic ==
    \A i \in 1..Len(s_channels.defs) :
        s_channels.defs[i].id \notin ReachableIds(i, Len(s_channels.defs))

\* C7: with stateless Logic operations and no reference cycle, a second
\* RD_Channel_Process run with no write in between leaves every Logic
\* channel's value as the first run left it, in any registration order.
C7_ProcessIdempotent ==
    (process_runs = 2 /\ Acyclic) =>
        \A i \in 1..Len(s_channels.defs) :
            s_channels.defs[i].type = "RD_CH_TYPE_LOGIC" =>
                s_channels.data[i].value = values_before[i]


\* ------------------------------------------------------------------------
\* runtime_step
\* ------------------------------------------------------------------------
\* the value the math engine writes for a derived signal in a step, as a
\* one-element sequence; <<>> when no channel with a callback has this id
DerivedValue(name) ==
    LET writers == {i \in 1..Len(math_engine) :
                      math_engine[i].id = name /\ math_engine[i].eval # NullFn}
    IN  IF writers = {} THEN <<>> ELSE <<math_afr_error(bus)>>

\* right after a step, every alert on a derived signal carries the comparison
\* of the value the math engine computed in that step
DerivedAlertSeesMath ==
    last_call = "runtime_step" =>
        \A i \in 1..Len(alerts) :
            DerivedValue(alerts[i].signal) # <<>> =>
                alerts[i].active = alert_condition(alerts[i], DerivedValue(alerts[i].signal)[1])

\* a step is one math pass over the bus, then one alert pass, one health pass
\* and one display tick that all read the bus the math pass left
StepStagesInOrder ==
    last_call' = "runtime_step" =>
        LET b1 == math_engine_evaluate(math_engine, bus, step_now', 1)
        IN  /\ bus' = b1
            /\ alerts' = alert_manager_evaluate(alerts, b1)
            /\ logger' = health_monitor_evaluate(health_monitor, b1, logger, step_now', 1)
            /\ display' = display_tick(display, b1)

\* C10: every runtime step runs the math engine, then the alerts, then the
\* health monitor, then the display tick, each once; an alert rule on a
\* derived signal sees the value the math engine computed in the same step.
C10_StepOrder == []DerivedAlertSeesMath /\ [][StepStagesInOrder]_vars

\* a step has just raised the alert on afr_error from the value computed in
\* this step out of the ingested lambda signals
C10_Witness ==
    /\ last_call = "runtime_step"
    /\ \E i \in 1..Len(alerts) :
           /\ alerts[i].signal = "afr_error"
           /\ alerts[i].greater_than
           /\ alerts[i].active
    /\ DerivedValue("afr_error") = <<1>>
    /\ signal_bus_timestamp_numeric(bus, "afr_error") = step_now
    /\ step_now = 2


\* ------------------------------------------------------------------------
\* Concurrent access to the channel store
\* ------------------------------------------------------------------------
InAccess(t) == pc[t] # "idle"

\* C9: accesses to the shared signal store are serialized: no task is inside
\* RD_Channel_SetValue or RD_Channel_Process while another task is inside an
\* access, so no half-applied update (a new value with the previous valid
\* flag) is in the store while another task reads or writes it.
C9_AccessesSerialized ==
    \A t1 \in Tasks, t2 \in Tasks :
        (t1 # t2 /\ pc[t1] \in {"write_valid", "count"}) => ~InAccess(t2)


\* ------------------------------------------------------------------------
\* Lap timer
\* ------------------------------------------------------------------------
RECURSIVE SumSeq(_, _)
SumSeq(q, i) == IF i > Len(q) THEN 0 ELSE q[i] + SumSeq(q, i + 1)

\* every sector line was stamped during the lap, in track order
AllSectorsInOrder(lap) ==
    /\ \A i \in 1..Len(lap.sector_times_ms) : lap.sector_times_ms[i] > 0
    /\ \A i \in 1..(Len(lap.sector_times_ms) - 1) :
           lap.sector_times_ms[i] < lap.sector_times_ms[i + 1]

\* C8: for every recorded lap with is_valid = true (here: one in which every
\* sector line was crossed, in order), the sum of its recorded sector times
\* equals its lap_time_ms within 1 ms.
C8_SectorSumEqualsLap ==
    \A k \in 1..Len(lt.laps) :
        (lt.laps[k].is_valid /\ AllSectorsInOrder(lt.laps[k])) =>
            LET d == SumSeq(lt.laps[k].sector_times_ms, 1) - lt.laps[k].lap_time_ms
            IN  d \in {-1, 0, 1}


\* ------------------------------------------------------------------------
\* Signal bus (C)
\* ------------------------------------------------------------------------
\* C11: after any sequence of set_numeric/set_digital calls each signal name
\* exists in at most one of the numeric and digital variants.
C11_NameInOneVariant ==
    \A name \in BusNames : ~(find_numeric(bus, name) > 0 /\ find_digital(bus, name) > 0)

\* C13: for every signal, the timestamp stored on the bus never decreases
\* over any sequence of set_numeric/set_digital calls made through
\* runtime_ingest.
C13_TimestampsNeverDecrease ==
    [][\A name \in BusNames :
          /\ signal_bus_timestamp_numeric(bus', name) >= signal_bus_timestamp_numeric(bus, name)
          /\ signal_bus_timestamp_digital(bus', name) >= signal_bus_timestamp_digital(bus, name)]_vars

\* C14: signal_bus_get_numeric reports a value only when the name has an
\* entry and the stored value is finite: a stored NaN is reported as absent.
C14_GetNumericFiniteOnly ==
    \A name \in BusNames :
        LET value == signal_bus_get_numeric(bus, name)
        IN  value # <<>> => ~isnan(value[1])

\* ------------------------------------------------------------------------
\* C12: with 64 numeric names stored, signal_bus_set_numeric on a stored name
\* updates its value and timestamp, and on a new name leaves the entries as
\* they were and records the failure in the bus (some field of the bus other
\* than the entries changes, the failure counter of the claim).
\* ------------------------------------------------------------------------
AtCapacity == Len(bus_before.numeric) = MAX_NUMERIC_SIGNALS

C12_CapacityFailureRecorded ==
    AtCapacity =>
        IF find_numeric(bus_before, bus_call.name) > 0
        THEN /\ signal_bus_get_numeric(bus, bus_call.name) = <<bus_call.value>>
             /\ signal_bus_timestamp_numeric(bus, bus_call.name) = bus_call.now
        ELSE /\ bus.numeric = bus_before.numeric
             /\ bus # bus_before

\* ------------------------------------------------------------------------
\* C15: the value of a registered Logic channel changes only in a step of
\* RD_Channel_Process, and the value of a registered AnalogIn or DigitalIn
\* channel only in a step of RD_Channel_UpdateRaw.
\* ------------------------------------------------------------------------
ValueChanged(id) ==
    LET i == find_channel_index(s_channels, id)
        j == find_channel_index(s_channels', id)
    IN  i > 0 /\ j > 0 /\ s_channels'.data[j].value # s_channels.data[i].value

TypeOf(id) == s_channels.defs[find_channel_index(s_channels, id)].type

ValueWrittenByOwner ==
    \A id \in ChannelIds :
        ValueChanged(id) =>
            /\ TypeOf(id) = "RD_CH_TYPE_LOGIC" => reg_call'.op = "process"
            /\ TypeOf(id) \in {"RD_CH_TYPE_ANALOG_IN", "RD_CH_TYPE_DIGITAL_IN"} =>
                   reg_call'.op = "update_raw"

C15_ValueWrittenByOwnerOnly == [][ValueWrittenByOwner]_vars

\* ------------------------------------------------------------------------
\* C16: an RD_Channel_UpdateRaw that returns RD_ERR_DISABLED or
\* RD_ERR_INVALID_TYPE adds one to the error_count of its channel and leaves
\* the channel's value, valid flag and update_count as they were.
\* ------------------------------------------------------------------------
FailedUpdateCounted ==
    reg_call'.op = "update_raw" /\ reg_call'.rc \in {"RD_ERR_DISABLED", "RD_ERR_INVALID_TYPE"} =>
        LET i == find_channel_index(s_channels, reg_call'.id)
            j == find_channel_index(s_channels', reg_call'.id)
        IN  /\ s_channels'.data[j].error_count = s_channels.data[i].error_count + 1
            /\ s_channels'.data[j].value = s_channels.data[i].value
            /\ s_channels'.data[j].valid = s_channels.data[i].valid
            /\ s_channels'.data[j].update_count = s_channels.data[i].update_count

C16_FailedUpdateCounted == [][FailedUpdateCounted]_vars

\* ------------------------------------------------------------------------
\* C17: a runtime_step taken while the external video source is not
\* EXTERNAL_NONE evaluates no display route and leaves the current screen as
\* it was.
\* ------------------------------------------------------------------------
ExternalStepKeepsScreen ==
    last_call' = "runtime_step" /\ external # "EXTERNAL_NONE" =>
        display'.current = display.current

C17_ExternalStepKeepsScreen == [][ExternalStepKeepsScreen]_vars

\* ------------------------------------------------------------------------
\* C18: lap_timer_update closes a lap only on a fix inside the start/finish
\* radius whose previous fix was further away than the radius, so a run of
\* consecutive fixes inside the radius closes at most one lap.
\* ------------------------------------------------------------------------
LapClosedOnEntryOnly ==
    Len(lt'.laps) > Len(lt.laps) =>
        /\ lap_timer_check_crossing(lap_prev'[1], lt.start_finish)
        /\ lap_prev # <<>>
        /\ ~lap_timer_check_crossing(lap_prev[1], lt.start_finish)

C18_LapClosedOnEntryOnly == [][LapClosedOnEntryOnly]_vars

\* ------------------------------------------------------------------------
\* C19: a recorded lap has is_valid = true only if the fixes of that lap lay
\* on every sector line of the track exactly once and in track order.
\* ------------------------------------------------------------------------
C19_ValidLapCrossedAllSectors ==
    \A k \in 1..Len(lt.laps) :
        lt.laps[k].is_valid => lap_orders[k] = [i \in 1..Len(lt.sectors) |-> i]

\* ------------------------------------------------------------------------
\* C20: once a valid lap is recorded, the best lap is a valid recorded lap
\* whose lap time is minimal over the valid recorded laps, and the earliest
\* of the laps with that time.
\* ------------------------------------------------------------------------
ValidLaps == {k \in 1..Len(lt.laps) : lt.laps[k].is_valid}

C20_BestLapIsEarliestMinimum ==
    ValidLaps # {} =>
        \E k \in ValidLaps :
            /\ lt.best_lap = lt.laps[k]
            /\ \A j \in ValidLaps :
                   /\ lt.laps[k].lap_time_ms <= lt.laps[j].lap_time_ms
                   /\ j < k => lt.laps[k].lap_time_ms < lt.laps[j].lap_time_ms

\* ------------------------------------------------------------------------
\* Advanced logger
\* ------------------------------------------------------------------------
IsPrefix(a, b) == Len(a) <= Len(b) /\ SubSeq(b, 1, Len(a)) = a

\* what the logger has put out for the open file: the file and, behind it,
\* the write buffer
OutputStream == sd_card.file \o adv_logger.write_buffer

\* C21: once a trigger has taken the armed logger to Recording, the samples
\* the pre-trigger ring buffer held at the trigger stand at the head of the
\* output, unchanged and in order, ahead of every sample logged afterwards.
C21_PreTriggerFlushedFirst ==
    adv_logger.state \in {"LOG_STATE_RECORDING", "LOG_STATE_PAUSED"} =>
        IsPrefix(adv_hist.head, OutputStream)

\* C22: samples_dropped equals the number of samples that found no room in
\* the write buffer and were discarded.
C22_DroppedSamplesCounted == adv_logger.samples_dropped = adv_hist.discarded

\* C23: from a failed file open or write until advanced_logger_clear_error
\* the logger is in LOG_STATE_ERROR, and advanced_logger_clear_error leaves
\* it in another state.
C23_ErrorUntilCleared ==
    /\ adv_hist.storage_failed => adv_logger.state = "LOG_STATE_ERROR"
    /\ adv_hist.op = "clear_error" => adv_logger.state # "LOG_STATE_ERROR"

\* C24: after advanced_logger_deinit, on a card that took every write, no
\* buffered sample was freed unwritten and no file is left open, whatever
\* state the logger was in.
C24_DeinitFlushesAndCloses ==
    (adv_hist.op = "deinit" /\ ~adv_hist.storage_failed) =>
        (adv_hist.lost = <<>> /\ sd_card.open = 0)

\* ------------------------------------------------------------------------
\* C25: on every RD_Channel_Process tick a Hysteresis Logic channel outputs
\* 1 when its input is >= parameters[1], 0 when its input is <= parameters[0],
\* and otherwise its own previous output (parameters[2] before the first
\* tick); with [30, 70, 0] the inputs 20,40,60,80,60,40,20 give 0,0,0,1,1,1,0.
\* ------------------------------------------------------------------------
HysteresisHolds ==
    \A i \in 1..Len(s_channels.defs) :
        LET cfg == s_channels.defs[i].logic
            in0 == logic_input(s_channels, cfg, 1)
            previous == IF isnan(s_channels.data[i].value) THEN cfg.parameters[3]
                        ELSE s_channels.data[i].value
        IN  (reg_call'.op = "process" /\ cfg.operation = "RD_LOGIC_HYSTERESIS") =>
                s_channels'.data[i].value =
                    IF in0 >= cfg.parameters[2] THEN 1
                    ELSE IF in0 <= cfg.parameters[1] THEN 0
                    ELSE previous

C25_HysteresisKeepsPreviousOutput == [][HysteresisHolds]_vars

\* ------------------------------------------------------------------------
\* C26: the registry never holds a reference cycle of Logic channels (the
\* definition that would close one is rejected), and right after an
\* RD_Channel_Process tick every enabled Logic channel holds the result of
\* its operation over the values its inputs hold after the tick: a chain of
\* dependent channels has settled within the tick, in any registration order.
\* ------------------------------------------------------------------------
Settled ==
    \A i \in 1..Len(s_channels.defs) :
        (s_channels.defs[i].enabled /\ s_channels.defs[i].type = "RD_CH_TYPE_LOGIC") =>
            s_channels.data[i].value = evaluate_logic(s_channels, s_channels.defs[i].logic)

C26_TopologicalOrderNoCycles ==
    /\ Acyclic
    /\ reg_call.op = "process" => Settled

\* ------------------------------------------------------------------------
\* C27: right after an RD_Channel_Process tick, an enabled Logic channel
\* with an arithmetic operation (Sum, Diff) one of whose inputs is a
\* registered channel holding NaN holds NaN and is not valid; otherwise it
\* holds the result over its inputs, an unregistered input counting as 0.
\* ------------------------------------------------------------------------
HoldsNaN(id) ==
    /\ find_channel_index(s_channels, id) > 0
    /\ isnan(RD_Channel_GetValue(s_channels, id))

Contribution(id) ==
    IF find_channel_index(s_channels, id) = 0 THEN 0
    ELSE RD_Channel_GetValue(s_channels, id)

ArithmeticResult(cfg) ==
    IF cfg.operation = "RD_LOGIC_SUM"
    THEN Contribution(cfg.input_channels[1]) + Contribution(cfg.input_channels[2])
    ELSE Contribution(cfg.input_channels[1]) - Contribution(cfg.input_channels[2])

C27_NaNInputPropagates ==
    reg_call.op = "process" =>
        \A i \in 1..Len(s_channels.defs) :
            LET def == s_channels.defs[i]
                out == s_channels.data[i]
            IN  (def.enabled /\ def.type = "RD_CH_TYPE_LOGIC"
                     /\ def.logic.operation \in ArithmeticOperations) =>
                    IF \E k \in 1..Len(def.logic.input_channels) :
                           HoldsNaN(def.logic.input_channels[k])
                    THEN isnan(out.value) /\ ~out.valid
                    ELSE out.value = ArithmeticResult(def.logic) /\ out.valid

\* ------------------------------------------------------------------------
\* DisplayManager::tick (C++)
\* ------------------------------------------------------------------------
\* the conditions whose predicate held at the last tick
Matched == matching(display_manager, dm_call.truth)

\* the targets of the matched conditions of the numerically lowest priority
TargetsOfLowest ==
    {display_manager.conditions_[i].target_screen_id : i \in
        {k \in Matched : \A j \in Matched :
            display_manager.conditions_[k].condition.priority
                <= display_manager.conditions_[j].condition.priority}}

\* the targets of the matched conditions of the numerically highest priority
TargetsOfHighest ==
    {display_manager.conditions_[i].target_screen_id : i \in
        {k \in Matched : \A j \in Matched :
            display_manager.conditions_[k].condition.priority
                >= display_manager.conditions_[j].condition.priority}}

TickedWithMatch ==
    /\ dm_call.op = "tick"
    /\ dm_call.source = "None"
    /\ Matched # {}

C29_LatchedRemovedOthersRetained ==
    \A i \in 1..Len(alert_steps) :
        ~alert_steps[i].asserted =>
            IF alerts_[i].latch_until_ack
            THEN alert_steps[i].after = alert_steps[i].before \ {alerts_[i].id}
            ELSE alert_steps[i].after = alert_steps[i].before

\* C29 (amended): in the last evaluate call, a rule that was not asserted
\* and has latch_until_ack left the active set as it was (its id is
\* retained), and a rule that was not asserted and has no latch_until_ack
\* left the set without its id; each rule starts from the set the rule
\* before it left.
C29_LatchedRetainedOthersRemoved ==
    /\ \A i \in 1..Len(alert_steps) :
           ~alert_steps[i].asserted =>
               IF alerts_[i].latch_until_ack
               THEN alert_steps[i].after = alert_steps[i].before
               ELSE alert_steps[i].after = alert_steps[i].before \ {alerts_[i].id}
    /\ \A i \in 2..Len(alert_steps) : alert_steps[i].before = alert_steps[i - 1].after

\* the last evaluate call found two rules not asserted whose ids were both
\* active: the latched one kept its id, the other one lost its id
C29_Witness ==
    /\ Len(alert_steps) = 2
    /\ ~alert_steps[1].asserted /\ ~alert_steps[2].asserted
    /\ alerts_[1].latch_until_ack /\ ~alerts_[2].latch_until_ack
    /\ alerts_[1].id # alerts_[2].id
    /\ alert_steps[1].before = {alerts_[1].id, alerts_[2].id}
    /\ alert_steps[2].after = {alerts_[1].id}
    /\ active_alerts_ = {alerts_[1].id}

\* C30: in the last evaluate call a rule wrote its notification exactly if
\* it was asserted and had not been asserted in the evaluate call before
\* (or there was none, or the rule was not registered then): one
\* notification per assertion, none while the rule stays asserted.
C30_NotifiedOncePerAssertion ==
    \A i \in 1..Len(alert_steps) :
        alert_steps[i].notified <=>
            /\ alert_steps[i].asserted
            /\ ~(i <= Len(alert_steps_prev) /\ alert_steps_prev[i].asserted)

\* ------------------------------------------------------------------------
\* DisplayManager::switch_to (C++)
\* ------------------------------------------------------------------------
IsScreen(id) == \E i \in 1..Len(display_manager.screens_) : display_manager.screens_[i] = id

\* C31: a tick with no external source writes the screen-switch event
\* exactly if the screen it resolved is a registered screen that differs
\* from the screen current before the tick, and that screen is then current;
\* a tick resolving to the current screen writes none, and a tick resolving
\* to an id that is not a registered screen writes none and leaves the
\* current screen as it was.
C31_SwitchEventOnChangeOnly ==
    (dm_call.op = "tick" /\ dm_call.source = "None") =>
        LET resolved == dm_call.selected[1]
        IN  /\ dm_call.switched <=> (IsScreen(resolved) /\ resolved # dm_call.before)
            /\ dm_call.switched => display_manager.current_screen_ = resolved
            /\ resolved = dm_call.before =>
                   (~dm_call.switched /\ display_manager.current_screen_ = dm_call.before)
            /\ ~IsScreen(resolved) =>
                   (~dm_call.switched /\ display_manager.current_screen_ = dm_call.before)

\* a tick has just resolved to the screen the tick before switched to, and
\* wrote no event
C31_Witness ==
    /\ dm_call.op = "tick"
    /\ dm_call.source = "None"
    /\ dm_call.selected = <<"warning">>
    /\ dm_call.before = "warning"
    /\ ~dm_call.switched
    /\ display_manager.current_screen_ = "warning"
    /\ IsScreen("race")

\* ------------------------------------------------------------------------
\* Lap records
\* ------------------------------------------------------------------------
\* the step is a lap_timer_update with a fix inside the start/finish radius
\* while a lap is in progress
CrossingInLap ==
    /\ lt.track_loaded
    /\ lt.in_lap_now
    /\ lap_prev' # <<>>
    /\ lap_timer_check_crossing(lap_prev'[1], lt.start_finish)
    /\ lap_clock' >= lap_clock

\* the step appends one record with the lap time and the next lap number
AppendsLap ==
    /\ Len(lt'.laps) = Len(lt.laps) + 1
    /\ SubSeq(lt'.laps, 1, Len(lt.laps)) = lt.laps
    /\ lt'.laps[Len(lt'.laps)].lap_time_ms = lap_clock' - lt.lap_start_time_ms
    /\ lt'.laps[Len(lt'.laps)].lap_number =
           IF lt.laps = <<>> THEN 1 ELSE lt.laps[Len(lt.laps)].lap_number + 1

\* the step starts the next lap at the crossing time
StartsNextLap == lt'.in_lap_now /\ lt'.lap_start_time_ms = lap_clock'

EveryCrossingAppends == CrossingInLap => (AppendsLap /\ StartsNextLap)

\* C32 as stated: every start/finish crossing while a lap is in progress
\* appends exactly one lap record, with lap_time_ms the crossing time minus
\* the lap start time and lap_number one greater than the previous record's,
\* and starts the next lap at the crossing time.
C32_EveryCrossingAppends == [][EveryCrossingAppends]_vars

CrossingAppendsWhileRoom ==
    CrossingInLap =>
        /\ IF Len(lt.laps) < MAX_LAPS THEN AppendsLap ELSE lt'.laps = lt.laps
        /\ StartsNextLap

\* C32 (amended): a start/finish crossing while a lap is in progress and
\* fewer than MAX_LAPS laps are recorded appends exactly one such record;
\* with MAX_LAPS laps recorded it appends none; in both cases it starts the
\* next lap at the crossing time.
C32_CrossingAppendsWhileRoom == [][CrossingAppendsWhileRoom]_vars

\* the laps[] array is full and a further crossing has started lap 1002
\* without a record
C32_Witness ==
    /\ Len(lt.laps) = MAX_LAPS
    /\ lt.laps[MAX_LAPS].lap_number = MAX_LAPS
    /\ lt.laps[MAX_LAPS].lap_time_ms = 1
    /\ lt.in_lap_now
    /\ lt.lap_start_time_ms = MAX_LAPS + 2
    /\ lap_clock = MAX_LAPS + 2

\* ------------------------------------------------------------------------
\* Pre-trigger ring buffer
\* ------------------------------------------------------------------------
Min(a, b) == IF a <= b THEN a ELSE b

\* the last n entries of seq
LastOf(seq, n) == SubSeq(seq, Len(seq) - n + 1, Len(seq))

\* C33: a ring buffer that ring_buffer_init gave capacity N and that has
\* taken k pushes since has count = min(k, N) and holds, from read_index on,
\* the most recent min(k, N) samples pushed, in arrival order.
C33_RingHoldsMostRecent ==
    adv_logger.ring_buffer.allocated =>
        LET rb == adv_logger.ring_buffer
            held == Min(Len(adv_hist.pushes), rb.capacity)
        IN  /\ rb.count = held
            /\ [j \in 1..held |-> rb.samples[(rb.read_index + j - 1) % rb.capacity]]
                   = LastOf(adv_hist.pushes, held)

\* C40: whenever advanced_logger_log_sample has pushed a sample (the logger
\* being Armed), the ring buffer it pushed into was allocated and had a
\* capacity of at least 1.
C40_PushIntoAllocatedRing ==
    (adv_hist.op = "log_sample" /\ adv_hist.pushed_into # <<>>) =>
        /\ adv_hist.pushed_into[1].allocated
        /\ adv_hist.pushed_into[1].capacity >= 1

\* ------------------------------------------------------------------------
\* Automatic flush
\* ------------------------------------------------------------------------
\* the step is an advanced_logger_log_sample on a recording logger
LogsWhileRecording ==
    /\ adv_logger.state = "LOG_STATE_RECORDING"
    /\ adv_hist'.op = "log_sample"
    /\ adv_hist'.logged = adv_hist.logged + 1

\* write_buffer_used once the sample of the step is in the buffer (a sample
\* that does not fit is not put in)
UsedWithSample ==
    IF write_buffer_used(adv_logger) + SAMPLE_SIZE < WriteBufferSize
    THEN write_buffer_used(adv_logger) + SAMPLE_SIZE
    ELSE write_buffer_used(adv_logger)

ReachesEightyPercent == UsedWithSample * 10 >= WriteBufferSize * 8

\* the step appended the whole buffer to the file and left the buffer empty
WrittenAndEmptied ==
    /\ adv_logger'.write_buffer = <<>>
    /\ Len(sd_card'.file) = Len(sd_card.file) + UsedWithSample
    /\ IsPrefix(sd_card.file \o adv_logger.write_buffer, sd_card'.file)

AutoFlushEmpties == (LogsWhileRecording /\ ReachesEightyPercent) => WrittenAndEmptied

\* C34 as stated: in Recording, a logged sample that brings the write
\* buffer to at least 80% of its size has the buffer written to storage and
\* emptied before log_sample returns.
C34_AutoFlushEmpties == [][AutoFlushEmpties]_vars

AutoFlushEmptiesIfWritten ==
    LogsWhileRecording =>
        IF ReachesEightyPercent
        THEN /\ adv_hist'.written # <<>>
             /\ IF adv_hist'.written[1] = UsedWithSample THEN WrittenAndEmptied
                ELSE write_buffer_used(adv_logger') = UsedWithSample
        ELSE /\ adv_hist'.written = <<>>
             /\ sd_card' = sd_card
             /\ write_buffer_used(adv_logger') = UsedWithSample

\* C34 (amended): in Recording, a logged sample that brings the write
\* buffer to at least 80% of its size has the buffer handed to File::write in
\* one operation before log_sample returns; if the write takes the whole
\* buffer, the buffer is emptied (write_buffer_used = 0), otherwise it is
\* kept as it is; below 80% nothing is written.
C34_AutoFlushEmptiesIfWritten == [][AutoFlushEmptiesIfWritten]_vars

\* the fourth sample has brought the buffer of five to 80%, and the logger
\* has written the four samples and emptied the buffer
C34_Witness ==
    /\ adv_hist.op = "log_sample"
    /\ adv_logger.state = "LOG_STATE_RECORDING"
    /\ adv_hist.written = <<4>>
    /\ adv_logger.write_buffer = <<>>
    /\ Len(sd_card.file) = 4
    /\ adv_logger.total_samples_written = 4

\* ------------------------------------------------------------------------
\* C36  At most one log file is open at a time: whatever the order of the
\*      calls, advanced_logger_start never leaves a file open that the
\*      logger no longer holds a handle to.
\* ------------------------------------------------------------------------
C36_AtMostOneFileOpen == sd_card.open <= 1


\* ------------------------------------------------------------------------
\* C38  debounced_input_update changes the debounced state only on the
\*      threshold_cycles-th raw sample in a row that differs from the
\*      current state; a raw sample equal to the current state sets the
\*      count to zero, so a shorter burst never changes the state.
\* ------------------------------------------------------------------------
RECURSIVE DifferingRun(_, _)
\* how many samples at the end of `samples` differ from `state`
DifferingRun(samples, state) ==
    IF samples = <<>> \/ samples[Len(samples)] = state THEN 0
    ELSE 1 + DifferingRun(SubSeq(samples, 1, Len(samples) - 1), state)

DebounceHolds ==
    pit_hist'.op = "update" =>
        LET raw == pit_hist'.samples[Len(pit_hist'.samples)]
            run == DifferingRun(pit_hist'.samples, pit_button.state)
        IN  /\ (pit_button'.state # pit_button.state) <=> (run = pit_button.threshold_cycles)
            /\ run <= pit_button.threshold_cycles
            /\ pit_button'.state # pit_button.state => pit_button'.state = raw
            /\ raw = pit_button.state => pit_button'.stable_cycles = 0
            /\ pit_button'.threshold_cycles = pit_button.threshold_cycles

C38_DebounceNeedsThresholdRun == [][DebounceHolds]_vars

\* a burst of one, the sample that ends it, then the two samples that change
\* the state of an input with threshold 2
C38_Witness ==
    /\ pit_hist.op = "update"
    /\ pit_hist.samples = <<TRUE, FALSE, TRUE, TRUE>>
    /\ pit_button.threshold_cycles = 2
    /\ pit_button.state = TRUE

C37_EverySampleAveragedOnce ==
    adc_task.pc = "idle" =>
        \A ch \in AdcChannels :
            /\ adc_hist.delivered[ch] = adc_hist.divisors[ch] + s_adc.sample_count[ch]
            /\ adc_hist.delivered_sum[ch] = adc_hist.dividends[ch] + s_adc.accumulated[ch]


\* ------------------------------------------------------------------------
\* C35  The alert HealthMonitor::evaluate registers for a stale signal is in
\*      the AlertManager active set only during ticks in which the signal is
\*      stale: after a Runtime::step, every such alert that is active
\*      belongs to a rule whose signal is stale at that time, so a signal
\*      that was written again has its alert out of the active set.
\* ------------------------------------------------------------------------
C35_StaleAlertOnlyWhileStale ==
    runtime_call = "step" =>
        \A i \in 1..Len(runtime_.health_monitor_.rules_) :
            LET rule == runtime_.health_monitor_.rules_[i]
            IN  (/\ rule.id \in runtime_.health_monitor_.issued_alerts_
                 /\ rule.id \in runtime_.alert_manager_.active_alerts_)
                    => is_stale_numeric(runtime_.bus_, rule.signal_name, rule.max_age,
                                        steady_clock)


====
